---- MODULE Spec2Model ----
(***************************************************************************)
(* Model of the Vinted publishing automation:                              *)
(*   - CategorySelectorService (services/categorySelector.js, "FIXED"      *)
(*     revision) and FormFieldSelector (services/formFieldSelector.js):    *)
(*     the strategy chains that open the category modal and click one      *)
(*     option per level of the category path;                              *)
(*   - VintedService.uploadPhotos: download to scratch files, inject,      *)
(*     clean up;                                                           *)
(*   - VintedService.publishArticle on top of the PlaywrightService        *)
(*     singleton (one shared browser / context for all attempts).          *)
(***************************************************************************)
EXTENDS Integers, Sequences, FiniteSets, TLC

\* ---------------------------------------------------------------------
\* Bounds of the model
\* ---------------------------------------------------------------------
MaxElems == 2
MaxDepth == 2
MaxUrls == 21
PatLen == 3
MaxFaults == 2

\* ---------------------------------------------------------------------
\* The live page as the selectors see it
\* ---------------------------------------------------------------------
UploadUrl == "/items/new"
CatalogUrl == "/catalog/1904"
HomeUrl == "/"
Urls == {UploadUrl, CatalogUrl, HomeUrl}

\* page.url().includes('/items/new')
OnUploadPage(u) == u = UploadUrl

Elem(tag, testid, href, role, cls, inLink, hasLink, leaf, visible, match) ==
  [tag |-> tag, testid |-> testid, href |-> href, role |-> role, cls |-> cls,
   inLink |-> inLink, hasLink |-> hasLink, leaf |-> leaf,
   visible |-> visible, match |-> match]

\* Elements a page can hold.  match: textContent.trim() === categoryName;
\* leaf: the text sits directly in the element (what getByText returns);
\* testid "first"/"second" stand for first-category-* / second-category-*,
\* "category" for any other data-testid containing "category".
ElementCatalog ==
  { Elem("button", "first",    "none",    "none",   "none",   FALSE, FALSE, TRUE,  TRUE,  TRUE),
    Elem("div",    "second",   "none",    "button", "none",   FALSE, FALSE, TRUE,  TRUE,  TRUE),
    Elem("a",      "first",    "catalog", "none",   "none",   FALSE, FALSE, TRUE,  TRUE,  TRUE),
    Elem("a",      "category", "other",   "none",   "none",   FALSE, FALSE, TRUE,  TRUE,  TRUE),
    Elem("span",   "none",     "none",    "none",   "none",   TRUE,  FALSE, TRUE,  TRUE,  TRUE),
    Elem("button", "none",     "none",    "none",   "none",   TRUE,  FALSE, TRUE,  TRUE,  TRUE),
    Elem("li",     "none",     "none",    "option", "none",   FALSE, FALSE, TRUE,  TRUE,  TRUE),
    Elem("li",     "none",     "none",    "none",   "none",   FALSE, TRUE,  FALSE, TRUE,  TRUE),
    Elem("a",      "none",     "catalog", "none",   "nav",    FALSE, FALSE, TRUE,  TRUE,  TRUE),
    Elem("div",    "none",     "none",    "none",   "option", FALSE, FALSE, TRUE,  TRUE,  TRUE),
    Elem("button", "first",    "none",    "none",   "none",   FALSE, FALSE, TRUE,  FALSE, TRUE),
    Elem("button", "second",   "none",    "none",   "none",   FALSE, FALSE, TRUE,  TRUE,  FALSE) }

Doms == UNION { [1..n -> ElementCatalog] : n \in 0..MaxElems }

\* A hyperlink, or a descendant of one.
IsLink(e) == e.tag = "a" \/ e.href # "none"
IsLinkOrInLink(e) == IsLink(e) \/ e.inLink

\* Clicking follows the hyperlink the element is or sits in.
Navigates(e) == (e.tag = "a" /\ e.href # "none") \/ e.inLink

\* for (const element of elements) { ... }: S holds the positions of the elements
\* that pass; the first one in DOM order is taken, 0 when there is none
First(S) == IF S = {} THEN 0 ELSE CHOOSE i \in S : \A j \in S : i <= j

HasTestIdCategory(e) == e.testid \in {"first", "second", "category"}

\* ---------------------------------------------------------------------
\* State
\* ---------------------------------------------------------------------
VARIABLES
  svc,        \* which selector runs: "cat" (CategorySelectorService) or "ffs" (FormFieldSelector)
  cpc,        \* position inside selectCategory / selectField
  url,        \* page.url() of the page handed to the selector
  depth,      \* pathParts.length
  level,      \* loop index i over pathParts
  strat,      \* index of the next strategy of selectCategoryLevel
  dom,        \* elements currently on the page, in DOM order
  clickLog,   \* committed clicks on category options, oldest first
  opens,      \* clicks that opened the category modal
  locCalls,   \* element-resolution attempts (strategies run) so far
  cres,       \* value returned by selectCategory / selectField
  entryUrl,   \* page.url() when the selector was invoked
  \* ---- uploadPhotos
  upc,        \* position inside uploadPhotos
  imageUrls,  \* the argument; each URL stands for what fetching and injecting it does
  idx,        \* loop index i
  uploadedFiles, \* the local array uploadedFiles (indices of the scratch files)
  scratch,    \* scratch files of this call that exist under /tmp/vinted-uploads
  failLog,    \* number of 'Failed to process image' errors logged
  upRes,      \* value uploadPhotos returns
  madeDir,    \* whether this call created the directory /tmp/vinted-uploads
  \* ---- publishArticle attempts on the PlaywrightService singleton
  pc,         \* per attempt: position inside publishArticle
  article,    \* per attempt: the listing passed in
  page,       \* per attempt: the context its page was created in, or "none"
  out,        \* per attempt: the outcome publishArticle returns
  trace,      \* per attempt: page interactions performed so far, oldest first
  upload,     \* per attempt: "none", or how its uploadPhotos call ended
  closing,    \* per attempt: the context / browser whose close() it awaits
  browser,    \* PlaywrightService.browser ("none" for null)
  context,    \* PlaywrightService.context ("none" for null)
  openBrowsers,  \* browsers launched and not closed
  openContexts,  \* contexts created and not closed
  ctxCookies, \* per context: the attempts whose cookies were added to it
  scan,       \* per attempt: the submit button loop (selector index, what it met)
  finalUrl,   \* per attempt: page.url() read after the submit click, or NoUrl
  fieldFaults, \* how many more form fields the upload page will fail to offer
  \* ---- findBestCategory
  rpc,        \* position inside findBestCategory
  aiCategory, \* the argument aiCategory ("" for a missing one)
  aiGender,   \* the argument aiGender ("" for a missing one)
  categories, \* VINTED_CATEGORIES.categories
  candidates, \* the local array candidates
  scored,     \* the local array scored
  best,       \* the node findBestCategory returns
  firstCall,  \* the catalogue before the first call, and what that call returned
  \* ---- navigateToCategory
  npc,        \* position inside navigateToCategory
  subCategories, \* the local array subCategories (kategorie1..4 without the empty ones)
  navLevel,   \* the level clickWithRetry works on: 0 the main category, i the i-th sub-category
  attempt,    \* the loop variable attempt of clickWithRetry
  tries,      \* the attempts of the latest clickWithRetry call: what each met and the
              \* retry delay in ms that followed it
  navClicks,  \* per finished level: the strategy whose click was committed, or "none"
  signal,     \* how page.waitForResponse ended: "arrived", "timeout" ("none" before)
  brandFieldExists, \* what page.$ found for the brand input: "yes", "no" ("none" before)
  navRes,     \* value navigateToCategory returns: "true", "false" ("pending" before)
  \* ---- the condition block of publishArticle
  condPc,     \* position inside the block
  condition,  \* article.condition || article.ai_analysis?.condition ("" for none)
  condSelector, \* index into conditionSelectors of the loop
  vintedCondition, \* the label handed to selectOption last ("none" before)
  conditionSet, \* the local conditionSet
  \* ---- VintedService.login
  lpc,        \* position inside login
  lbrowser,   \* the browser of the PlaywrightService: "none", "open", "closed"
  loginButton, \* what clicked the login button: 0 nothing, 1..4 the selector of
              \* that index, 5 the text 'Einloggen'
  currentUrl, \* page.url() read after the submit: "none" before, "login" for a URL
              \* that contains /member/login
  cookies,    \* number of cookies getCookies returned (-1 before)
  failedStep, \* the step of login that threw or returned false ("none" if none did)
  loginRes,   \* value login returns
  \* ---- SupabaseService tables and VintedController.publishArticle
  now,        \* the clock, in days
  sessions,   \* table vinted_sessions; the id of a row is its index
  articleRec, \* the row of table articles with id 1
  activity,   \* status of the logActivity calls made, oldest first
  ctlPc,      \* position of the controller: "idle", "publishing", "done"
  ctlArticleId, \* req.body.articleId (0 for none)
  ctlSession, \* id of the session getActiveSession returned to the request (0 for null)
  ctlResult,  \* publishResult.success of the request: "ok", "failed" ("none" before)
  response    \* HTTP status sent (0 before)

catVars == <<svc, cpc, url, depth, level, strat, dom, clickLog, opens, locCalls, cres, entryUrl>>
upVars == <<upc, imageUrls, idx, uploadedFiles, scratch, failLog, upRes, madeDir>>

pubVars == <<pc, article, page, out, trace, upload, closing,
             browser, context, openBrowsers, openContexts, ctxCookies,
             scan, finalUrl, fieldFaults>>

resVars == <<rpc, aiCategory, aiGender, categories, candidates, scored, best,
             firstCall>>

navVars == <<npc, subCategories, navLevel, attempt, tries, navClicks, signal,
             brandFieldExists, navRes>>

condVars == <<condPc, condition, condSelector, vintedCondition, conditionSet>>

loginVars == <<lpc, lbrowser, loginButton, currentUrl, cookies, failedStep, loginRes>>

dbVars == <<now, sessions, articleRec, activity, ctlPc, ctlArticleId, ctlSession,
            ctlResult, response>>

appVars == <<condVars, loginVars, dbVars>>

vars == <<catVars, upVars, pubVars, resVars, navVars, appVars>>

\* vintedCategory.full_path.split(' -> '); a path of depth d is its first d parts
PathParts == <<"Damen", "Kleidung", "Jacken", "Jeansjacken">>

\* what the selectors return; segment is the category name an error message holds
Pending == [success |-> FALSE, error |-> "pending", level |-> 0, segment |-> "none"]
Failure(err, lvl) ==
  [success |-> FALSE, error |-> err, level |-> lvl, segment |-> "none"]
Success == [success |-> TRUE, error |-> "none", level |-> 0, segment |-> "none"]

\* ---------------------------------------------------------------------
\* CategorySelectorService.selectCategoryLevel: the six strategies
\* ---------------------------------------------------------------------
NumCatStrategies == 6

\* strategy 1: [data-testid^="first-category-"], level 0 only
CatFirstCategory(lvl, d) ==
  IF lvl # 0 THEN 0
  ELSE First({ i \in DOMAIN d :
                 d[i].testid = "first" /\ d[i].visible /\ d[i].match })

\* strategy 2: [data-testid^="second-category-"], level 1 only
CatSecondCategory(lvl, d) ==
  IF lvl # 1 THEN 0
  ELSE First({ i \in DOMAIN d :
                 d[i].testid = "second" /\ d[i].visible /\ d[i].match })

\* strategy 3: [data-testid*="category"], skipping href containing '/catalog'
CatAnyCategory(lvl, d) ==
  First({ i \in DOMAIN d :
            /\ HasTestIdCategory(d[i])
            /\ d[i].visible /\ d[i].match
            /\ d[i].href # "catalog" })

\* strategy 4: button, div[role="button"], div[class*="option"]; skips tagName 'a'
CatButtons(lvl, d) ==
  First({ i \in DOMAIN d :
            /\ \/ d[i].tag = "button"
               \/ d[i].tag = "div" /\ d[i].role = "button"
               \/ d[i].tag = "div" /\ d[i].cls = "option"
            /\ d[i].visible /\ d[i].match
            /\ d[i].tag # "a" })

\* strategy 5: li, [role="option"]; skips items that contain a link
CatListItems(lvl, d) ==
  First({ i \in DOMAIN d :
            /\ d[i].tag = "li" \/ d[i].role = "option"
            /\ d[i].visible /\ d[i].match
            /\ ~d[i].hasLink })

\* strategy 6: getByText exact; skips <a href> and nav/menu/header classes
CatExactText(lvl, d) ==
  First({ i \in DOMAIN d :
            /\ d[i].match /\ d[i].leaf /\ d[i].visible
            /\ ~(d[i].tag = "a" /\ d[i].href # "none")
            /\ d[i].cls # "nav" })

\* index of the element strategy s clicks on page d, 0 when it returns false
CatStrategy(s, lvl, d) ==
  CASE s = 1 -> CatFirstCategory(lvl, d)
    [] s = 2 -> CatSecondCategory(lvl, d)
    [] s = 3 -> CatAnyCategory(lvl, d)
    [] s = 4 -> CatButtons(lvl, d)
    [] s = 5 -> CatListItems(lvl, d)
    [] OTHER -> CatExactText(lvl, d)

\* ---------------------------------------------------------------------
\* FormFieldSelector.selectCategoryLevel: the three strategies
\* ---------------------------------------------------------------------
NumFfsStrategies == 3

\* if (tagName === 'a' || href) continue;
FfsTestIdSafe(e) == e.visible /\ e.match /\ ~(e.tag = "a" \/ e.href # "none")

\* one pattern of strategy 1: tag[data-testid...] elements, links skipped
FfsTestIdPattern(d, tag, testids) ==
  First({ i \in DOMAIN d :
            d[i].tag = tag /\ d[i].testid \in testids /\ FfsTestIdSafe(d[i]) })

\* strategy 1: the six button/div data-testid patterns, tried in order
FfsTestIdPatterns(d) ==
  << FfsTestIdPattern(d, "button", {"first"}),
     FfsTestIdPattern(d, "div", {"first"}),
     FfsTestIdPattern(d, "button", {"second"}),
     FfsTestIdPattern(d, "div", {"second"}),
     FfsTestIdPattern(d, "button", {"first", "second", "category"}),
     FfsTestIdPattern(d, "div", {"first", "second", "category"}) >>

FfsTestId(d) ==
  LET picks == FfsTestIdPatterns(d)
      hit == { p \in 1..Len(picks) : picks[p] # 0 }
  IN IF hit = {} THEN 0 ELSE picks[CHOOSE p \in hit : \A q \in hit : p <= q]

\* strategy 2: getByText exact, skipping an element that is or sits inside a link
FfsExactText(d) ==
  First({ i \in DOMAIN d :
            /\ d[i].match /\ d[i].leaf /\ d[i].visible
            /\ ~(d[i].tag = "a" \/ d[i].href # "none" \/ d[i].inLink) })

\* strategy 3: getByRole('button', { name, exact }), visible
FfsButtonRole(d) ==
  First({ i \in DOMAIN d :
            /\ d[i].tag = "button" \/ d[i].role = "button"
            /\ d[i].match /\ d[i].visible })

FfsStrategy(s, d) ==
  CASE s = 1 -> FfsTestId(d)
    [] s = 2 -> FfsExactText(d)
    [] OTHER -> FfsButtonRole(d)

\* ---------------------------------------------------------------------
\* CategorySelectorService.selectCategory
\* ---------------------------------------------------------------------
NumOpenStrategies == 5

\* a committed click: where in the chain, on what, the URL after it and the number
\* of element resolutions run up to it
Click(lvl, s, e, u, n) ==
  [level |-> lvl, strat |-> s, link |-> IsLinkOrInLink(e), urlAfter |-> u, calls |-> n]

\* selectCategory without the entry check: goes straight to openCategoryDropdown
SelectCategoryEntry_NoUrlCheck ==
  /\ svc = "cat" /\ cpc = "entry"
  /\ cpc' = "open" /\ UNCHANGED cres
  /\ UNCHANGED <<svc, url, depth, level, strat, dom, clickLog, opens, locCalls, entryUrl, upVars, pubVars, resVars, navVars, appVars>>

\* entry: const currentUrl = page.url(); if (!currentUrl.includes('/items/new')) return {...}
SelectCategoryEntry ==
  /\ svc = "cat" /\ cpc = "entry"
  /\ IF ~OnUploadPage(url)
       THEN cres' = Failure("WrongPage", 0) /\ cpc' = "done"
       ELSE cpc' = "open" /\ UNCHANGED cres
  /\ UNCHANGED <<svc, url, depth, level, strat, dom, clickLog, opens, locCalls, entryUrl, upVars, pubVars, resVars, navVars, appVars>>

\* openCategoryDropdown: the first strategy whose input becomes visible clicks it,
\* then the URL is verified; found = 0 when every waitFor times out
OpenCategoryDropdown ==
  /\ svc = "cat" /\ cpc = "open"
  /\ \E found \in 0..NumOpenStrategies, nav \in BOOLEAN :
       LET u == IF found # 0 /\ nav THEN CatalogUrl ELSE url
       IN /\ locCalls' = locCalls + (IF found = 0 THEN NumOpenStrategies ELSE found)
          /\ opens' = IF found = 0 THEN opens ELSE opens + 1
          /\ url' = u
          /\ IF found # 0 /\ OnUploadPage(u)
               THEN cpc' = "level" /\ level' = 0 /\ UNCHANGED cres
               ELSE cres' = Failure("NoDropdown", 0) /\ cpc' = "done" /\ UNCHANGED level
  /\ UNCHANGED <<svc, depth, strat, dom, clickLog, entryUrl, upVars, pubVars, resVars, navVars, appVars>>

\* head of the loop over pathParts: the URL check before each level; dom is what
\* the page shows once selectCategoryLevel has waited for the modal to settle
SelectCategoryLoop ==
  /\ svc = "cat" /\ cpc = "level"
  /\ IF level = depth
       THEN cpc' = "final" /\ UNCHANGED <<strat, cres, dom>>
       ELSE IF ~OnUploadPage(url)
         THEN cres' = Failure("NavigatedAway", level + 1) /\ cpc' = "done"
              /\ UNCHANGED <<strat, dom>>
         ELSE cpc' = "strategy" /\ strat' = 1 /\ dom' \in Doms /\ UNCHANGED cres
  /\ UNCHANGED <<svc, url, depth, level, clickLog, opens, locCalls, entryUrl, upVars, pubVars, resVars, navVars, appVars>>

\* a failure that carries the loop index instead of the 1-based level
LevelFailed_ZeroBased(lvl) ==
  [Failure("NotFound", lvl) EXCEPT !.segment = PathParts[lvl + 1]]

\* what selectCategory returns when selectCategoryLevel returned false:
\* error: `Could not find category: ${categoryName}`, level: i + 1
LevelFailed(lvl) ==
  [Failure("NotFound", lvl + 1) EXCEPT !.segment = PathParts[lvl + 1]]

\* selectCategoryLevel detected that its click left /items/new: it returns false,
\* and selectCategory reports the level as not found
LevelDrifted(lvl) == LevelFailed(lvl)

\* selectCategoryLevel without the URL check after the click: returns true
SelectCategoryLevel_NoUrlCheck ==
  /\ svc = "cat" /\ cpc = "strategy"
  /\ locCalls' = locCalls + 1
  /\ LET k == CatStrategy(strat, level, dom)
     IN IF k = 0
          THEN /\ IF strat < NumCatStrategies
                    THEN strat' = strat + 1 /\ UNCHANGED <<cpc, cres>>
                    ELSE cres' = LevelFailed(level) /\ cpc' = "done" /\ UNCHANGED strat
               /\ UNCHANGED <<url, level, dom, clickLog>>
          ELSE LET u == IF Navigates(dom[k]) THEN CatalogUrl ELSE url
               IN /\ clickLog' = Append(clickLog, Click(level, strat, dom[k], u, locCalls + 1))
                  /\ url' = u
                  /\ dom' = << >>
                  /\ level' = level + 1 /\ cpc' = "level"
                  /\ UNCHANGED <<strat, cres>>
  /\ UNCHANGED <<svc, depth, opens, entryUrl, upVars, pubVars, resVars, navVars, appVars>>

\* a loop over the strategies that goes on after a strategy has clicked
SelectCategoryLevel_KeepsTrying ==
  /\ svc = "cat" /\ cpc = "strategy"
  /\ locCalls' = locCalls + 1
  /\ LET k == CatStrategy(strat, level, dom)
         u == IF k # 0 /\ Navigates(dom[k]) THEN CatalogUrl ELSE url
     IN /\ clickLog' = IF k = 0 THEN clickLog
                       ELSE Append(clickLog, Click(level, strat, dom[k], u, locCalls + 1))
        /\ url' = u
        /\ IF strat < NumCatStrategies
             THEN strat' = strat + 1 /\ UNCHANGED <<cpc, cres, level, dom>>
             ELSE IF \E i \in DOMAIN clickLog' : clickLog'[i].level = level
               THEN level' = level + 1 /\ cpc' = "level" /\ dom' = << >>
                    /\ UNCHANGED <<strat, cres>>
               ELSE cres' = LevelFailed(level) /\ cpc' = "done"
                    /\ UNCHANGED <<strat, level, dom>>
  /\ UNCHANGED <<svc, depth, opens, entryUrl, upVars, pubVars, resVars, navVars, appVars>>

\* one strategy of selectCategoryLevel: a committed click is followed by the URL check
SelectCategoryLevel ==
  /\ svc = "cat" /\ cpc = "strategy"
  /\ locCalls' = locCalls + 1
  /\ LET k == CatStrategy(strat, level, dom)
     IN IF k = 0
          THEN /\ IF strat < NumCatStrategies
                    THEN strat' = strat + 1 /\ UNCHANGED <<cpc, cres>>
                    ELSE cres' = LevelFailed(level) /\ cpc' = "done" /\ UNCHANGED strat
               /\ UNCHANGED <<url, level, dom, clickLog>>
          ELSE LET u == IF Navigates(dom[k]) THEN CatalogUrl ELSE url
               IN /\ clickLog' = Append(clickLog, Click(level, strat, dom[k], u, locCalls + 1))
                  /\ url' = u
                  /\ dom' = << >>
                  /\ IF OnUploadPage(u)
                       THEN /\ level' = level + 1 /\ cpc' = "level"
                            /\ UNCHANGED <<strat, cres>>
                       ELSE /\ cres' = LevelDrifted(level) /\ cpc' = "done"
                            /\ UNCHANGED <<level, strat>>
  /\ UNCHANGED <<svc, depth, opens, entryUrl, upVars, pubVars, resVars, navVars, appVars>>

\* final check after the loop
SelectCategoryFinal ==
  /\ svc = "cat" /\ cpc = "final"
  /\ cres' = IF OnUploadPage(url) THEN Success ELSE Failure("NavigationOccurred", 0)
  /\ cpc' = "done"
  /\ UNCHANGED <<svc, url, depth, level, strat, dom, clickLog, opens, locCalls, entryUrl, upVars, pubVars, resVars, navVars, appVars>>

\* ---------------------------------------------------------------------
\* FormFieldSelector.selectField('category', pathParts)
\* ---------------------------------------------------------------------
NumModalStrategies == 5

SelectFieldEntry ==
  /\ svc = "ffs" /\ cpc = "entry"
  /\ IF ~OnUploadPage(url)
       THEN cres' = Failure("WrongPage", 0) /\ cpc' = "done"
       ELSE cpc' = "open" /\ UNCHANGED cres
  /\ UNCHANGED <<svc, url, depth, level, strat, dom, clickLog, opens, locCalls, entryUrl, upVars, pubVars, resVars, navVars, appVars>>

\* openFieldModal: findUploadForm, then the first strategy that clicks; no URL check
OpenFieldModal ==
  /\ svc = "ffs" /\ cpc = "open"
  /\ \E form \in BOOLEAN, found \in 0..NumModalStrategies, nav \in BOOLEAN :
       LET clicked == form /\ found # 0
       IN /\ locCalls' = locCalls + 1 +
                (IF ~form THEN 0 ELSE IF found = 0 THEN NumModalStrategies ELSE found)
          /\ opens' = IF clicked THEN opens + 1 ELSE opens
          /\ url' = IF clicked /\ nav THEN CatalogUrl ELSE url
          /\ IF clicked
               THEN cpc' = "level" /\ level' = 0 /\ UNCHANGED cres
               ELSE cres' = Failure("NoModal", 0) /\ cpc' = "done" /\ UNCHANGED level
  /\ UNCHANGED <<svc, depth, strat, dom, clickLog, entryUrl, upVars, pubVars, resVars, navVars, appVars>>

\* head of the loop of selectCategoryHierarchy; dom is what the page shows once
\* selectCategoryLevel has waited for the modal to settle
SelectCategoryHierarchy ==
  /\ svc = "ffs" /\ cpc = "level"
  /\ IF level = depth
       THEN cres' = Success /\ cpc' = "done" /\ UNCHANGED <<strat, dom>>
       ELSE cpc' = "strategy" /\ strat' = 1 /\ dom' \in Doms /\ UNCHANGED cres
  /\ UNCHANGED <<svc, url, depth, level, clickLog, opens, locCalls, entryUrl, upVars, pubVars, resVars, navVars, appVars>>

\* one strategy of FormFieldSelector.selectCategoryLevel; after a committed click
\* selectCategoryHierarchy verifies the URL
FfsSelectCategoryLevel ==
  /\ svc = "ffs" /\ cpc = "strategy"
  /\ locCalls' = locCalls + 1
  /\ LET k == FfsStrategy(strat, dom)
     IN IF k = 0
          THEN /\ IF strat < NumFfsStrategies
                    THEN strat' = strat + 1 /\ UNCHANGED <<cpc, cres>>
                    ELSE cres' = LevelFailed(level) /\ cpc' = "done" /\ UNCHANGED strat
               /\ UNCHANGED <<url, level, dom, clickLog>>
          ELSE LET u == IF Navigates(dom[k]) THEN CatalogUrl ELSE url
               IN /\ clickLog' = Append(clickLog, Click(level, strat, dom[k], u, locCalls + 1))
                  /\ url' = u
                  /\ dom' = << >>
                  /\ IF OnUploadPage(u)
                       THEN /\ level' = level + 1 /\ cpc' = "level"
                            /\ UNCHANGED <<strat, cres>>
                       ELSE /\ cres' = Failure("NavigatedAway", level + 1) /\ cpc' = "done"
                            /\ UNCHANGED <<level, strat>>
  /\ UNCHANGED <<svc, depth, opens, entryUrl, upVars, pubVars, resVars, navVars, appVars>>

\* ---------------------------------------------------------------------
\* VintedService.uploadPhotos
\* ---------------------------------------------------------------------
PhotoLimit == 20

\* What one image URL leads to inside the loop body:
\*   ok      200, bytes written, setInputFiles succeeds
\*   status  response.statusCode !== 200 (the write stream has created the file)
\*   neterr  the request errors: the handler unlinks the file and rejects
\*   empty   200 with no bytes: 'Downloaded file is empty'
\*   inject  downloaded, but fileInput.setInputFiles throws
\*   hang    the server accepts the request and never completes the response:
\*           the request has no timeout, neither 'finish' nor 'error' is emitted
\*           and the awaited promise is never settled
ImageOutcomes == {"ok", "status", "neterr", "empty", "inject", "hang"}

Min(a, b) == IF a < b THEN a ELSE b

\* the scratch file of image i exists when the loop body is left
LeavesFile(o) == o \in {"ok", "status", "empty", "inject"}

UpIdle == [success |-> FALSE, error |-> "pending"]
UpFailure(err) == [success |-> FALSE, error |-> err]
UpSuccess(n) == [success |-> TRUE, uploadedCount |-> n]

\* the scratch directory is made before the file input is looked up
UploadStart_DirFirst ==
  /\ upc = "start"
  /\ \E hasInput \in BOOLEAN, mkdirOk \in BOOLEAN :
       IF ~mkdirOk
         THEN upRes' = UpFailure("exception") /\ upc' = "done" /\ UNCHANGED madeDir
         ELSE /\ madeDir' = TRUE
              /\ IF hasInput THEN upc' = "loop" /\ UNCHANGED upRes
                             ELSE upRes' = UpFailure("NoFileInput") /\ upc' = "done"
  /\ UNCHANGED <<imageUrls, idx, uploadedFiles, scratch, failLog, catVars, pubVars, resVars, navVars, appVars>>

\* steps 1 and 2 and the scratch directory: the photo button is clicked when present,
\* the file input is looked up; without one nothing is downloaded and the call
\* returns. With one, the directory is made unless it exists; a mkdir that fails
\* is caught by the outer catch.
UploadStart ==
  /\ upc = "start"
  /\ \E hasInput \in BOOLEAN, dirExists \in BOOLEAN, mkdirOk \in BOOLEAN :
       IF ~hasInput
         THEN upRes' = UpFailure("NoFileInput") /\ upc' = "done" /\ UNCHANGED madeDir
         ELSE IF dirExists
           THEN upc' = "loop" /\ UNCHANGED <<upRes, madeDir>>
           ELSE IF mkdirOk
             THEN upc' = "loop" /\ madeDir' = TRUE /\ UNCHANGED upRes
             ELSE upRes' = UpFailure("exception") /\ upc' = "done" /\ UNCHANGED madeDir
  /\ UNCHANGED <<imageUrls, idx, uploadedFiles, scratch, failLog, catVars, pubVars, resVars, navVars, appVars>>

\* the loop with a catch that gives up on the first failing image
UploadImage_AbortOnFailure ==
  /\ upc = "loop"
  /\ idx < Min(Len(imageUrls), PhotoLimit)
  /\ imageUrls[idx + 1] # "hang"
  /\ LET o == imageUrls[idx + 1]
     IN /\ scratch' = IF LeavesFile(o) THEN scratch \cup {idx} ELSE scratch
        /\ uploadedFiles' = IF o = "ok" THEN Append(uploadedFiles, idx) ELSE uploadedFiles
        /\ failLog' = IF o = "ok" THEN failLog ELSE failLog + 1
        /\ idx' = IF o = "ok" THEN idx + 1 ELSE Min(Len(imageUrls), PhotoLimit)
  /\ UNCHANGED <<upc, imageUrls, upRes, madeDir, catVars, pubVars, resVars, navVars, appVars>>

\* the loop bounded by imageUrls.length alone
UploadImage_NoLimit ==
  /\ upc = "loop"
  /\ idx < Len(imageUrls)
  /\ imageUrls[idx + 1] # "hang"
  /\ LET o == imageUrls[idx + 1]
     IN /\ scratch' = IF LeavesFile(o) THEN scratch \cup {idx} ELSE scratch
        /\ uploadedFiles' = IF o = "ok" THEN Append(uploadedFiles, idx) ELSE uploadedFiles
        /\ failLog' = IF o = "ok" THEN failLog ELSE failLog + 1
  /\ idx' = idx + 1
  /\ UNCHANGED <<upc, imageUrls, upRes, madeDir, catVars, pubVars, resVars, navVars, appVars>>

\* one iteration of the loop: the try body and its catch
UploadImage ==
  /\ upc = "loop"
  /\ idx < Min(Len(imageUrls), PhotoLimit)
  /\ imageUrls[idx + 1] # "hang"
  /\ LET o == imageUrls[idx + 1]
     IN /\ scratch' = IF LeavesFile(o) THEN scratch \cup {idx} ELSE scratch
        /\ uploadedFiles' = IF o = "ok" THEN Append(uploadedFiles, idx) ELSE uploadedFiles
        /\ failLog' = IF o = "ok" THEN failLog ELSE failLog + 1
  /\ idx' = idx + 1
  /\ UNCHANGED <<upc, imageUrls, upRes, madeDir, catVars, pubVars, resVars, navVars, appVars>>

\* after the loop: unlink every file of uploadedFiles, then return
UploadCleanup ==
  /\ upc = "loop"
  /\ idx = Min(Len(imageUrls), PhotoLimit)
  /\ scratch' = scratch \ { uploadedFiles[j] : j \in 1..Len(uploadedFiles) }
  /\ upRes' = IF Len(uploadedFiles) = 0 THEN UpFailure("NoImages")
                                         ELSE UpSuccess(Len(uploadedFiles))
  /\ upc' = "done"
  /\ UNCHANGED <<imageUrls, idx, uploadedFiles, failLog, madeDir, catVars, pubVars, resVars, navVars, appVars>>

\* ---------------------------------------------------------------------
\* findBestCategory(aiCategory, aiGender) over VINTED_CATEGORIES.categories.
\* Strings are sequences of characters.
\* ---------------------------------------------------------------------
LowerChar(c) ==
  LET upperCase == "ABCDEFGHIJKLMNOPQRSTUVWXYZÄÖÜ"
      lowerCase == "abcdefghijklmnopqrstuvwxyzäöü"
      k == First({ i \in 1..Len(upperCase) : SubSeq(upperCase, i, i) = c })
  IN IF k = 0 THEN c ELSE SubSeq(lowerCase, k, k)

RECURSIVE ToLower(_)
\* String.prototype.toLowerCase
ToLower(s) ==
  IF Len(s) = 0 THEN ""
  ELSE LowerChar(SubSeq(s, 1, 1)) \o ToLower(SubSeq(s, 2, Len(s)))

\* String.prototype.includes
Includes(s, k) ==
  \E i \in 1..(Len(s) - Len(k) + 1) : SubSeq(s, i, i + Len(k) - 1) = k

RECURSIVE Join(_)
\* full_path of a node: its parts joined by ' → '
Join(parts) ==
  IF Len(parts) = 1 THEN parts[1] ELSE parts[1] \o " → " \o Join(Tail(parts))

Node(parts) ==
  [hauptkategorie |-> parts[1], parts |-> parts, depth |-> Len(parts),
   full_path |-> Join(parts)]

NoNode == [hauptkategorie |-> "", parts |-> << >>, depth |-> 0, full_path |-> ""]

\* a catalogue that holds the fallback node
CatalogueA ==
  << Node(<<"Damen", "Kleidung", "Jeans">>),
     Node(<<"Damen", "Kleidung", "Jeans", "Skinny Jeans">>),
     Node(<<"Damen", "Kleidung", "Hosen">>),
     Node(<<"Damen", "Kleidung", "Sonstiges">>),
     Node(<<"Damen", "Kleidung", "Jacken & Mäntel", "Mäntel">>),
     Node(<<"Herren", "Kleidung", "Hosen", "Chinos", "Slim", "Kurz">>),
     Node(<<"Herren", "Kleidung", "Hosen">>),
     Node(<<"Herren", "Kleidung", "Tops & T-Shirts", "T-Shirts">>),
     Node(<<"Herren", "Jeans">>) >>

\* a catalogue without the fallback node
CatalogueB ==
  << Node(<<"Herren", "Kleidung", "Hosen">>),
     Node(<<"Herren", "Jeans">>),
     Node(<<"Damen", "Kleidung", "Jeans", "Skinny Jeans">>),
     Node(<<"Damen", "Kleidung", "Jeans">>),
     Node(<<"Damen", "Umstandsmode", "Jeans">>) >>

\* a gender map that is looked up with the hint as it was given
TargetGender_CaseSensitive(hint) ==
  CASE hint = "" -> "damen"
    [] hint = "women" -> "damen"
    [] hint = "men" -> "herren"
    [] hint = "kids" -> "kinder"
    [] hint = "female" -> "damen"
    [] hint = "male" -> "herren"
    [] OTHER -> "undefined"

\* aiGender ? genderMap[aiGender.toLowerCase()] : 'damen'
TargetGender(hint) ==
  LET g == ToLower(hint)
  IN CASE hint = "" -> "damen"
       [] g = "women" -> "damen"
       [] g = "men" -> "herren"
       [] g = "kids" -> "kinder"
       [] g = "female" -> "damen"
       [] g = "male" -> "herren"
       [] OTHER -> "undefined"

\* categoryKeywords, in the order of its entries
CategoryKeywords ==
  << <<"t-shirt", "t-shirts">>, <<"shirt", "shirts">>, <<"blouse", "blusen">>,
     <<"top", "tops">>, <<"sweater", "sweater">>, <<"hoodie", "hoodies">>,
     <<"pullover", "pullover">>, <<"jacket", "jacken">>, <<"coat", "mäntel">>,
     <<"blazer", "blazer">>, <<"jeans", "jeans">>, <<"pants", "hosen">>,
     <<"trousers", "hosen">>, <<"leggings", "leggings">>, <<"shorts", "shorts">>,
     <<"dress", "kleider">>, <<"skirt", "röcke">> >>

\* a filter in which any keyword that the text includes admits a node
Survives_AnyKeyword(cat, normalized, targetGender) ==
  /\ ToLower(cat.hauptkategorie) = targetGender
  /\ \E i \in DOMAIN CategoryKeywords :
       /\ Includes(normalized, CategoryKeywords[i][1])
       /\ Includes(ToLower(cat.full_path), CategoryKeywords[i][2])

\* the filter callback: the gender must match, and the first keyword of the table
\* that the text includes decides
Survives(cat, normalized, targetGender) ==
  /\ ToLower(cat.hauptkategorie) = targetGender
  /\ LET k == First({ i \in DOMAIN CategoryKeywords :
                      Includes(normalized, CategoryKeywords[i][1]) })
     IN k # 0 /\ Includes(ToLower(cat.full_path), CategoryKeywords[k][2])

\* a score in which a keyword match of the last part weighs as much as an exact
\* match of some part
Score_HeavyKeyword(cat, normalized) ==
  LET parts == [i \in DOMAIN cat.parts |-> ToLower(cat.parts[i])]
      lastPart == parts[Len(parts)]
      hits == Cardinality({ i \in DOMAIN CategoryKeywords :
                /\ Includes(normalized, CategoryKeywords[i][1])
                /\ lastPart = CategoryKeywords[i][2] })
  IN (IF lastPart = normalized THEN 100 ELSE 0)
     + (IF \E i \in DOMAIN parts : parts[i] = normalized THEN 50 ELSE 0)
     + 50 * hits
     + (IF cat.depth \in {3, 4} THEN 10 ELSE 0)
     - (IF cat.depth > 4 THEN 5 ELSE 0)

\* the map callback of the scoring
Score(cat, normalized) ==
  LET parts == [i \in DOMAIN cat.parts |-> ToLower(cat.parts[i])]
      lastPart == parts[Len(parts)]
      hits == Cardinality({ i \in DOMAIN CategoryKeywords :
                /\ Includes(normalized, CategoryKeywords[i][1])
                /\ lastPart = CategoryKeywords[i][2] })
  IN (IF lastPart = normalized THEN 100 ELSE 0)
     + (IF \E i \in DOMAIN parts : parts[i] = normalized THEN 50 ELSE 0)
     + 30 * hits
     + (IF cat.depth \in {3, 4} THEN 10 ELSE 0)
     - (IF cat.depth > 4 THEN 5 ELSE 0)

\* a sort that leaves the array as it is
SortDesc_Unsorted(s) == s

RECURSIVE SortDesc_Unstable(_)
\* a sort that puts an element before the elements of the same score
SortDesc_Unstable(s) ==
  IF Len(s) <= 1 THEN s
  ELSE LET e == s[Len(s)]
           t == SortDesc_Unstable(SubSeq(s, 1, Len(s) - 1))
           k == Cardinality({ j \in DOMAIN t : t[j].score > e.score })
       IN SubSeq(t, 1, k) \o <<e>> \o SubSeq(t, k + 1, Len(t))

RECURSIVE SortDesc(_)
\* scored.sort((a, b) => b.score - a.score): stable, highest score first
SortDesc(s) ==
  IF Len(s) <= 1 THEN s
  ELSE LET e == s[Len(s)]
           t == SortDesc(SubSeq(s, 1, Len(s) - 1))
           k == Cardinality({ j \in DOMAIN t : t[j].score >= e.score })
       IN SubSeq(t, 1, k) \o <<e>> \o SubSeq(t, k + 1, Len(t))

\* candidates.length === 0: the node with the fallback path, or categories[0]
Fallback(cats) ==
  LET k == First({ i \in DOMAIN cats :
                    cats[i].full_path = "Damen → Kleidung → Sonstiges" })
  IN IF k = 0 THEN cats[1] ELSE cats[k]

\* entry, filter and the fallback return
ResolveFilter ==
  /\ rpc = "start"
  /\ IF aiCategory = ""
       THEN best' = categories[1] /\ rpc' = "done" /\ UNCHANGED candidates
       ELSE LET normalized == ToLower(aiCategory)
                Keep(cat) == Survives(cat, normalized, TargetGender(aiGender))
                kept == SelectSeq(categories, Keep)
            IN /\ candidates' = kept
               /\ IF kept = << >>
                    THEN best' = Fallback(categories) /\ rpc' = "done"
                    ELSE rpc' = "score" /\ UNCHANGED best
  /\ UNCHANGED <<firstCall, aiCategory, aiGender, categories, scored>>
  /\ UNCHANGED <<catVars, upVars, pubVars, navVars, appVars>>

\* const scored = candidates.map(cat => ({ cat, score }))
ResolveScore ==
  /\ rpc = "score"
  /\ scored' = [i \in DOMAIN candidates |->
                  [cat |-> candidates[i],
                   score |-> Score(candidates[i], ToLower(aiCategory))]]
  /\ rpc' = "sort"
  /\ UNCHANGED <<firstCall, aiCategory, aiGender, categories, candidates, best>>
  /\ UNCHANGED <<catVars, upVars, pubVars, navVars, appVars>>

\* a return that also moves the returned node to the front of the catalogue
ResolveSort_MoveToFront ==
  /\ rpc = "sort"
  /\ scored' = SortDesc(scored)
  /\ best' = scored'[1].cat
  /\ LET NotBest(cat) == cat # best'
     IN categories' = <<best'>> \o SelectSeq(categories, NotBest)
  /\ rpc' = "done"
  /\ UNCHANGED <<firstCall, aiCategory, aiGender, candidates>>
  /\ UNCHANGED <<catVars, upVars, pubVars, navVars, appVars>>

\* scored.sort(...); const best = scored[0].cat; return best
ResolveSort ==
  /\ rpc = "sort"
  /\ scored' = SortDesc(scored)
  /\ best' = scored'[1].cat
  /\ rpc' = "done"
  /\ UNCHANGED <<firstCall, aiCategory, aiGender, categories, candidates>>
  /\ UNCHANGED <<catVars, upVars, pubVars, navVars, appVars>>

\* findBestCategory is called again with the same arguments
ResolveAgain ==
  /\ rpc = "done"
  /\ firstCall.best = NoNode
  /\ firstCall' = [firstCall EXCEPT !.best = best]
  /\ rpc' = "start"
  /\ candidates' = << >>
  /\ scored' = << >>
  /\ best' = NoNode
  /\ UNCHANGED <<aiCategory, aiGender, categories>>
  /\ UNCHANGED <<catVars, upVars, pubVars, navVars, appVars>>

InitResVars ==
  /\ rpc = "idle"
  /\ aiCategory = ""
  /\ aiGender = ""
  /\ categories = << >>
  /\ candidates = << >>
  /\ scored = << >>
  /\ best = NoNode
  /\ firstCall = [cats |-> categories, best |-> NoNode]

\* ---------------------------------------------------------------------
\* navigateToCategory(page, category) and clickWithRetry(page, text, 3)
\* ---------------------------------------------------------------------
MaxRetries == 3

\* page.waitForSelector('form') and the lookup of the category field: a missing
\* category field is only logged, a timeout or an evaluation error is caught
\* and false is returned
NavStart ==
  /\ npc = "start"
  /\ \E formLoaded \in BOOLEAN :
       IF formLoaded THEN npc' = "click" /\ UNCHANGED navRes
                     ELSE npc' = "done" /\ navRes' = "false"
  /\ UNCHANGED <<subCategories, navLevel, attempt, tries, navClicks, signal, brandFieldExists>>
  /\ UNCHANGED <<catVars, upVars, pubVars, resVars, appVars>>

\* a retry loop whose catch swallows the error of the final attempt as well
ClickWithRetry_SwallowsLast ==
  /\ npc = "click"
  /\ \E r \in {"form", "xpath", "global", "miss", "error"} :
       LET last == attempt = MaxRetries
           thrown == last /\ r \in {"miss", "error"} /\ navLevel = 0
           returned == r \in {"form", "xpath", "global"} \/ last
           try == [r |-> r, wait |-> IF r = "miss" /\ ~last THEN attempt * 500 ELSE 0]
       IN /\ tries' = IF attempt = 1 THEN <<try>> ELSE Append(tries, try)
          /\ IF thrown
               THEN /\ npc' = "done" /\ navRes' = "false"
                    /\ UNCHANGED <<navLevel, attempt, navClicks>>
               ELSE IF returned
                 THEN /\ navClicks' = Append(navClicks,
                                             IF r \in {"miss", "error"} THEN "none" ELSE r)
                      /\ attempt' = 1
                      /\ IF navLevel < Len(subCategories)
                           THEN navLevel' = navLevel + 1 /\ UNCHANGED npc
                           ELSE npc' = "wait" /\ UNCHANGED navLevel
                      /\ UNCHANGED navRes
                 ELSE /\ attempt' = attempt + 1
                      /\ UNCHANGED <<npc, navLevel, navClicks, navRes>>
  /\ UNCHANGED <<subCategories, signal, brandFieldExists>>
  /\ UNCHANGED <<catVars, upVars, pubVars, resVars, appVars>>

\* one attempt of clickWithRetry for the current level and what its caller does
\* with the value returned: r is the strategy that clicks a visible exact match
\* ("form", "xpath", "global"), "miss" when none does, "error" when an evaluation
\* throws. After a miss that is not the last attempt the loop waits attempt * 500
\* ms; an error skips that wait and is rethrown only in the last attempt. A main
\* category that is not found is thrown, a sub-category that is not found is
\* logged and the loop goes on.
ClickWithRetry ==
  /\ npc = "click"
  /\ \E r \in {"form", "xpath", "global", "miss", "error"} :
       LET last == attempt = MaxRetries
           thrown == last /\ (r = "error" \/ (r = "miss" /\ navLevel = 0))
           returned == r \in {"form", "xpath", "global"} \/ (r = "miss" /\ last)
           try == [r |-> r, wait |-> IF r = "miss" /\ ~last THEN attempt * 500 ELSE 0]
       IN /\ tries' = IF attempt = 1 THEN <<try>> ELSE Append(tries, try)
          /\ IF thrown
               THEN /\ npc' = "done" /\ navRes' = "false"
                    /\ UNCHANGED <<navLevel, attempt, navClicks>>
               ELSE IF returned
                 THEN /\ navClicks' = Append(navClicks,
                                             IF r \in {"miss", "error"} THEN "none" ELSE r)
                      /\ attempt' = 1
                      /\ IF navLevel < Len(subCategories)
                           THEN navLevel' = navLevel + 1 /\ UNCHANGED npc
                           ELSE npc' = "wait" /\ UNCHANGED navLevel
                      /\ UNCHANGED navRes
                 ELSE /\ attempt' = attempt + 1
                      /\ UNCHANGED <<npc, navLevel, navClicks, navRes>>
  /\ UNCHANGED <<subCategories, signal, brandFieldExists>>
  /\ UNCHANGED <<catVars, upVars, pubVars, resVars, appVars>>

\* the wait for the brand-list response (its timeout is caught and logged), the
\* lookup of the brand input (its absence is logged) and return true; a lookup
\* that throws is caught at the end of the function and false is returned
NavVerify ==
  /\ npc = "wait"
  /\ \E s \in {"arrived", "timeout"}, b \in {"yes", "no", "error"} :
       /\ signal' = s
       /\ brandFieldExists' = b
       /\ navRes' = IF b = "error" THEN "false" ELSE "true"
  /\ npc' = "done"
  /\ UNCHANGED <<subCategories, navLevel, attempt, tries, navClicks>>
  /\ UNCHANGED <<catVars, upVars, pubVars, resVars, appVars>>

InitNavVars ==
  /\ npc = "idle"
  /\ subCategories = << >>
  /\ navLevel = 0
  /\ attempt = 1
  /\ tries = << >>
  /\ navClicks = << >>
  /\ signal = "none"
  /\ brandFieldExists = "none"
  /\ navRes = "pending"

\* ---------------------------------------------------------------------
\* The condition block of VintedService.publishArticle
\* ---------------------------------------------------------------------
NumConditionSelectors == 3

\* conditionMap[condition.toLowerCase()] || condition. conditionMap is an object
\* literal, so the lookup also finds the properties it inherits from
\* Object.prototype: of those only 'constructor' and '__proto__' are spelled in
\* lower case; they yield a function and an object, both truthy, written here as
\* the name prefixed with "Object.prototype."
ConditionLabel(c) ==
  LET k == ToLower(c)
  IN CASE k \in {"neu", "new"} -> "Neu mit Etikett"
       [] k \in {"sehr gut", "very good"} -> "Sehr gut"
       [] k \in {"gut", "good"} -> "Gut"
       [] k \in {"zufriedenstellend", "satisfactory"} -> "Zufriedenstellend"
       [] k \in {"constructor", "__proto__"} -> "Object.prototype." \o k
       [] OTHER -> c

\* if (article.condition || article.ai_analysis?.condition)
ConditionStart ==
  /\ condPc = "start"
  /\ condPc' = IF condition = "" THEN "done" ELSE "loop"
  /\ UNCHANGED <<condition, condSelector, vintedCondition, conditionSet>>
  /\ UNCHANGED <<catVars, upVars, pubVars, resVars, navVars, loginVars, dbVars>>

\* one pass of the loop over conditionSelectors: waitFor times out ("hidden"), or
\* selectOption is called with the label and throws ("rejected": no such option,
\* or a label that is not a string) or succeeds ("selected"); after the loop a
\* condition that was not set is only logged
ConditionSelect ==
  /\ condPc = "loop"
  /\ \E r \in {"hidden", "rejected", "selected"} :
       LET label == ConditionLabel(condition)
       IN /\ r = "selected" => ~Includes(label, "Object.prototype.")
          /\ vintedCondition' = IF r = "hidden" THEN vintedCondition ELSE label
          /\ conditionSet' = (r = "selected")
          /\ IF r = "selected" \/ condSelector = NumConditionSelectors
               THEN condPc' = "done" /\ UNCHANGED condSelector
               ELSE condSelector' = condSelector + 1 /\ UNCHANGED condPc
  /\ UNCHANGED condition
  /\ UNCHANGED <<catVars, upVars, pubVars, resVars, navVars, loginVars, dbVars>>

\* ---------------------------------------------------------------------
\* VintedService.login (the Playwright version)
\* ---------------------------------------------------------------------
MaxCookies == 4
NumLoginSelectors == 4
MinCookies == 3

\* the steps in front of the checks, in the order of the code: createPage, goto
\* the homepage, the login button (the first of four selectors that is visible, or
\* the text 'Einloggen'), typing email and password, the submit click.
\* A step that throws, or a humanType that returns false, ends in the catch
\* block. createPage launches the browser; when it throws the browser may or may
\* not have been launched.
LoginStep ==
  LET steps == <<"create", "goto", "button", "email", "password", "submit", "check">>
  IN \E i \in 1..6 :
       /\ lpc = steps[i]
       /\ \E ok \in BOOLEAN, launched \in BOOLEAN, b \in 0..(NumLoginSelectors + 1) :
            /\ IF i = 3 THEN ok = (b # 0) ELSE b = 0
            /\ loginButton' = IF i = 3 THEN b ELSE loginButton
            /\ lbrowser' = IF i = 1 /\ (ok \/ launched) THEN "open" ELSE lbrowser
            /\ IF ok THEN lpc' = steps[i + 1] /\ UNCHANGED failedStep
                     ELSE lpc' = "catch" /\ failedStep' = steps[i]
       /\ UNCHANGED <<currentUrl, cookies, loginRes>>
       /\ UNCHANGED <<catVars, upVars, pubVars, resVars, navVars, condVars, dbVars>>

\* after the submit: the URL check, the cookie count and the user agent
LoginCheck ==
  /\ lpc = "check"
  /\ \E u \in {"login", "home", "member"}, n \in 0..MaxCookies, uaOk \in BOOLEAN :
       /\ currentUrl' = u
       /\ cookies' = IF u = "login" THEN cookies ELSE n
       /\ IF u = "login" \/ n < MinCookies
            THEN lpc' = "catch" /\ UNCHANGED failedStep
            ELSE IF uaOk THEN lpc' = "return" /\ UNCHANGED failedStep
                         ELSE lpc' = "catch" /\ failedStep' = "userAgent"
  /\ UNCHANGED <<lbrowser, loginButton, loginRes>>
  /\ UNCHANGED <<catVars, upVars, pubVars, resVars, navVars, condVars, dbVars>>

\* the success branch: closeBrowser, then the object literal of the return
\* statement is evaluated. It reads screenshotBefore and screenshotAfter, whose
\* declarations are commented out, so the evaluation throws a ReferenceError
\* inside the try block and control goes to the catch block.
LoginReturn ==
  /\ lpc = "return"
  /\ \E closed \in BOOLEAN :
       lbrowser' = IF lbrowser = "open" /\ closed THEN "closed" ELSE lbrowser
  /\ lpc' = "catch"
  /\ UNCHANGED <<loginButton, currentUrl, cookies, failedStep, loginRes>>
  /\ UNCHANGED <<catVars, upVars, pubVars, resVars, navVars, condVars, dbVars>>

\* the catch block: closeBrowser (it swallows its own errors), then the failure
\* is returned with the message of the error
LoginCatch ==
  /\ lpc = "catch"
  /\ \E closed \in BOOLEAN :
       lbrowser' = IF lbrowser = "open" /\ closed THEN "closed" ELSE lbrowser
  /\ loginRes' =
       [success |-> FALSE, cookies |-> -1,
        error |-> IF failedStep # "none" THEN failedStep
                  ELSE IF currentUrl = "login" THEN "StillOnLoginPage"
                  ELSE IF cookies < MinCookies THEN "NotEnoughCookies"
                  ELSE "ReferenceError"]
  /\ lpc' = "done"
  /\ UNCHANGED <<loginButton, currentUrl, cookies, failedStep>>
  /\ UNCHANGED <<catVars, upVars, pubVars, resVars, navVars, condVars, dbVars>>

\* ---------------------------------------------------------------------
\* SupabaseService (sessions, articles, activity log) and the publish controller
\* ---------------------------------------------------------------------
MaxNow == 8
MaxSessions == 2
MaxLog == 2
SessionDays == 7

\* The clock counts days. When an operation reads it, no time, three days or the
\* lifetime of a session has passed since the operation before.

\* a query that returns the newest row whether or not it is still valid
ActiveSessions_IgnoresValid(ss, t) ==
  { i \in DOMAIN ss :
      /\ ss[i].valid_until > t
      /\ \A j \in DOMAIN ss : ss[j].valid_until > t => ss[j].last_used <= ss[i].last_used }

\* getActiveSession at time t: .eq('session_valid', true).gt('valid_until', now)
\* .order('last_used', descending).limit(1); the rows the query can return (more
\* than one when the newest last_used is shared)
ActiveSessions(ss, t) ==
  { i \in DOMAIN ss :
      /\ ss[i].session_valid /\ ss[i].valid_until > t
      /\ \A j \in DOMAIN ss :
           (ss[j].session_valid /\ ss[j].valid_until > t) => ss[j].last_used <= ss[i].last_used }

\* saveSession: insert a row that is valid for 7 days
SaveSession ==
  /\ Len(sessions) < MaxSessions
  /\ \E t \in { u \in {now, now + 3, now + SessionDays} : u <= MaxNow } :
       /\ now' = t
       /\ sessions' = Append(sessions, [session_valid |-> TRUE,
                                        valid_until |-> t + SessionDays,
                                        last_used |-> t])
  /\ UNCHANGED <<articleRec, activity, ctlPc, ctlArticleId, ctlSession, ctlResult, response>>
  /\ UNCHANGED <<catVars, upVars, pubVars, resVars, navVars, condVars, loginVars>>

\* invalidateSession(id): update session_valid of that row
InvalidateSession ==
  /\ \E id \in DOMAIN sessions :
       /\ sessions[id].session_valid
       /\ sessions' = [sessions EXCEPT ![id].session_valid = FALSE]
  /\ UNCHANGED <<now, articleRec, activity, ctlPc, ctlArticleId, ctlSession, ctlResult, response>>
  /\ UNCHANGED <<catVars, upVars, pubVars, resVars, navVars, condVars, loginVars>>

\* a request up to the call of vintedService.publishArticle: no articleId gives
\* 400; getArticle of an id without a row throws (.single() reports an error) and
\* the catch answers 500; no active session gives 401
CtlRequest ==
  /\ ctlPc \in {"idle", "done"}
  /\ Len(activity) < MaxLog
  /\ \E id \in 0..2, t \in { u \in {now, now + 3, now + SessionDays} : u <= MaxNow }, dbOk \in BOOLEAN :
       /\ now' = t
       /\ ctlArticleId' = id
       /\ ctlResult' = "none"
       /\ IF id = 0
            THEN response' = 400 /\ ctlPc' = "done" /\ ctlSession' = 0
            ELSE IF id # 1 \/ ~dbOk
              THEN response' = 500 /\ ctlPc' = "done" /\ ctlSession' = 0
              ELSE IF ActiveSessions(sessions, t) = {}
                THEN response' = 401 /\ ctlPc' = "done" /\ ctlSession' = 0
                ELSE /\ ctlSession' \in ActiveSessions(sessions, t)
                     /\ response' = 0 /\ ctlPc' = "publishing"
  /\ UNCHANGED <<sessions, articleRec, activity>>
  /\ UNCHANGED <<catVars, upVars, pubVars, resVars, navVars, condVars, loginVars>>

\* a handler that records the listing whatever publishArticle returned
CtlFinish_UpdatesAlways ==
  /\ ctlPc = "publishing"
  /\ \E ok \in BOOLEAN, t \in { u \in {now, now + 3, now + SessionDays} : u <= MaxNow } :
       /\ now' = t
       /\ ctlResult' = IF ok THEN "ok" ELSE "failed"
       /\ articleRec' = [status |-> "published", vinted_id |-> "4711"]
       /\ sessions' = [sessions EXCEPT ![ctlSession].last_used = t]
       /\ activity' = Append(activity, IF ok THEN "success" ELSE "failed")
       /\ response' = IF ok THEN 200 ELSE 500
  /\ ctlPc' = "done"
  /\ UNCHANGED <<ctlArticleId, ctlSession>>
  /\ UNCHANGED <<catVars, upVars, pubVars, resVars, navVars, condVars, loginVars>>

\* the handler from the return of publishArticle on. Failure: logActivity
\* 'failed', 500. Success: updateArticleVintedInfo, updateSessionLastUsed,
\* logActivity 'success', 200; an update that throws (upTo counts the updates that
\* succeed) is answered with 500 by the catch and the later calls are not made.
CtlFinish ==
  /\ ctlPc = "publishing"
  /\ \E ok \in BOOLEAN, t \in { u \in {now, now + 3, now + SessionDays} : u <= MaxNow }, upTo \in 0..2 :
       /\ now' = t
       /\ ctlResult' = IF ok THEN "ok" ELSE "failed"
       /\ articleRec' = IF ok /\ upTo >= 1
                          THEN [status |-> "published", vinted_id |-> "4711"]
                          ELSE articleRec
       /\ sessions' = IF ok /\ upTo = 2
                        THEN [sessions EXCEPT ![ctlSession].last_used = t]
                        ELSE sessions
       /\ activity' = IF ~ok THEN Append(activity, "failed")
                      ELSE IF upTo = 2 THEN Append(activity, "success")
                      ELSE activity
       /\ response' = IF ok /\ upTo = 2 THEN 200 ELSE 500
  /\ ctlPc' = "done"
  /\ UNCHANGED <<ctlArticleId, ctlSession>>
  /\ UNCHANGED <<catVars, upVars, pubVars, resVars, navVars, condVars, loginVars>>

InitAppVars ==
  /\ condPc = "idle"
  /\ condition = ""
  /\ condSelector = 1
  /\ vintedCondition = "none"
  /\ conditionSet = FALSE
  /\ lpc = "idle"
  /\ lbrowser = "none"
  /\ loginButton = 0
  /\ currentUrl = "none"
  /\ cookies = -1
  /\ failedStep = "none"
  /\ loginRes = [success |-> FALSE, error |-> "pending", cookies |-> -1]
  /\ now = 0
  /\ sessions = << >>
  /\ articleRec = [status |-> "draft", vinted_id |-> "none"]
  /\ activity = << >>
  /\ ctlPc = "idle"
  /\ ctlArticleId = 0
  /\ ctlSession = 0
  /\ ctlResult = "none"
  /\ response = 0

InitCatVars ==
  /\ svc = "cat"
  /\ cpc = "idle"
  /\ url = UploadUrl
  /\ entryUrl = UploadUrl
  /\ depth = 1
  /\ level = 0
  /\ strat = 1
  /\ dom = << >>
  /\ clickLog = << >>
  /\ opens = 0
  /\ locCalls = 0
  /\ cres = Pending

InitUpVars ==
  /\ upc = "idle"
  /\ imageUrls = << >>
  /\ idx = 0
  /\ uploadedFiles = << >>
  /\ scratch = {}
  /\ failLog = 0
  /\ upRes = UpIdle
  /\ madeDir = FALSE

Attempts == {"a1", "a2"}

InitPubVars ==
  /\ pc = [a \in Attempts |-> "idle"]
  /\ article = [a \in Attempts |-> "none"]
  /\ page = [a \in Attempts |-> "none"]
  /\ out = [a \in Attempts |-> "none"]
  /\ trace = [a \in Attempts |-> << >>]
  /\ upload = [a \in Attempts |-> "none"]
  /\ closing = [a \in Attempts |-> "none"]
  /\ browser = "none"
  /\ context = "none"
  /\ openBrowsers = {}
  /\ openContexts = {}
  /\ ctxCookies = [c \in Attempts |-> {}]
  /\ scan = [a \in Attempts |-> "none"]
  /\ finalUrl = [a \in Attempts |-> "none"]
  /\ fieldFaults = 0

\* image lists of every length up to MaxUrls whose outcomes repeat with period PatLen
PeriodicUrls ==
  { [i \in 1..n |-> p[((i - 1) % PatLen) + 1]] :
      n \in 0..MaxUrls, p \in [1..PatLen -> ImageOutcomes] }

InitUpload ==
  /\ InitCatVars
  /\ InitPubVars
  /\ InitResVars
  /\ InitNavVars
  /\ InitAppVars
  /\ upc = "start"
  /\ imageUrls \in PeriodicUrls
  /\ idx = 0
  /\ uploadedFiles = << >>
  /\ scratch = {}
  /\ failLog = 0
  /\ upRes = UpIdle
  /\ madeDir = FALSE

NextUpload ==
  \/ UploadStart
  \/ UploadImage
  \/ UploadCleanup

SpecUpload == InitUpload /\ [][NextUpload]_vars

\* the event loop runs the continuation of every await whose promise has settled
SpecUploadFair == SpecUpload /\ WF_vars(NextUpload)

\* ---------------------------------------------------------------------
\* Properties of uploadPhotos (SpecUpload)
\* ---------------------------------------------------------------------
\* number of images the loop looks at: min(n, 20)
Attempted == Min(Len(imageUrls), PhotoLimit)

\* k: how many of the attempted images fail
FailingCount == Cardinality({ i \in 1..Attempted : imageUrls[i] # "ok" })

\* uploadPhotos returned from behind the loop (a file input was found)
ReturnedAfterLoop ==
  upc = "done" /\ (upRes.success \/ upRes.error = "NoImages")

\* C6: once uploadPhotos has returned, on any path, none of the scratch files it
\* created exists any more.
C6_NoScratchLeft == upc = "done" => scratch = {}

InitCat ==
  /\ InitUpVars
  /\ InitPubVars
  /\ InitResVars
  /\ InitNavVars
  /\ InitAppVars
  /\ svc \in {"cat", "ffs"}
  /\ cpc = "entry"
  /\ url \in Urls
  /\ entryUrl = url
  /\ depth \in 1..MaxDepth
  /\ level = 0
  /\ strat = 1
  /\ dom = << >>
  /\ clickLog = << >>
  /\ opens = 0
  /\ locCalls = 0
  /\ cres = Pending

NextCat ==
  \/ SelectCategoryEntry
  \/ OpenCategoryDropdown
  \/ SelectCategoryLoop
  \/ SelectCategoryLevel
  \/ SelectCategoryFinal
  \/ SelectFieldEntry
  \/ OpenFieldModal
  \/ SelectCategoryHierarchy
  \/ FfsSelectCategoryLevel

SpecCat == InitCat /\ [][NextCat]_vars

\* ---------------------------------------------------------------------
\* Properties of the category selectors (SpecCat)
\* ---------------------------------------------------------------------
\* the clicks committed on category options so far
Clicks == { clickLog[i] : i \in 1..Len(clickLog) }

\* the last committed click left /items/new
Drifted == clickLog # << >> /\ ~OnUploadPage(clickLog[Len(clickLog)].urlAfter)

\* C1: a selector invoked on a URL without '/items/new' returns success:false with
\* the wrong-page error, having run no element resolution and clicked nothing
\* (neither the opener nor any level strategy is ever entered).
C1_WrongPageNoLocator ==
  ~OnUploadPage(entryUrl) =>
    /\ locCalls = 0
    /\ opens = 0
    /\ clickLog = << >>
    /\ cpc \in {"entry", "done"}
    /\ cpc = "done" => cres = Failure("WrongPage", 0)

C1_Witness ==
  /\ ~OnUploadPage(entryUrl)
  /\ cpc = "done"
  /\ cres = Failure("WrongPage", 0)
  /\ locCalls = 0

\* C2: at every level and in every strategy, the element clicked is neither a
\* hyperlink nor a descendant of one.
C2_NeverClicksLink == \A c \in Clicks : ~c.link

\* C3: in selectCategory, a committed click that leaves /items/new is the last
\* thing the selector does (no further strategy, no further level) and the call
\* fails; success:true is returned only if the URL was on /items/new at entry,
\* after every committed click and at the final check, with one click per level.
C3_DriftAborts ==
  /\ \A i \in 1..Len(clickLog) :
       ~OnUploadPage(clickLog[i].urlAfter) =>
         /\ i = Len(clickLog)
         /\ cpc = "done"
         /\ ~cres.success
         /\ locCalls = clickLog[i].calls
  /\ (svc = "cat" /\ cpc = "done" /\ cres.success) =>
       /\ OnUploadPage(entryUrl)
       /\ \A c \in Clicks : OnUploadPage(c.urlAfter)
       /\ OnUploadPage(url)
       /\ Len(clickLog) = depth
       /\ \A i \in 1..Len(clickLog) : clickLog[i].level = i - 1

C3_Witness ==
  /\ svc = "cat"
  /\ cpc = "done"
  /\ Drifted
  /\ ~cres.success
  /\ Len(clickLog) < depth

\* C4: when the click at level i leaves /items/new, the failure selectCategory
\* returns reports navigation away from the upload page, and so differs from the
\* 'Could not find category' failure of a level no strategy matched.
C4_DriftTyped ==
  (svc = "cat" /\ cpc = "done" /\ Drifted) =>
    cres.error \in {"NavigatedAway", "NavigationOccurred"}


\* ---------------------------------------------------------------------
\* VintedService.publishArticle over the PlaywrightService singleton.
\* A browser (and the context created in it) is named after the attempt
\* whose launchBrowser call created it.
\* ---------------------------------------------------------------------
MinTextLen == 5

Listing(t, d, c, x, n) ==
  [titleLen |-> t, descLen |-> d, hasCategory |-> c, extras |-> x, nImages |-> n]

\* The listings an attempt is called with: a complete one, one with a short title,
\* one with a short description, and one with only title and description.
\* extras: price, brand, size, condition and color are given.
Articles ==
  { Listing(MinTextLen, MinTextLen, TRUE, TRUE, 1),
    Listing(MinTextLen - 1, MinTextLen, TRUE, TRUE, 1),
    Listing(MinTextLen, MinTextLen - 1, TRUE, TRUE, 1),
    Listing(MinTextLen, MinTextLen, FALSE, FALSE, 0) }

\* A URL of the site is the sequence of its path segments; NoUrl stands for no URL.
NoUrl == << >>
NewItemUrl == <<"items", "new">>

\* where the page can be when the wait after the submit click is over
FinalUrls ==
  { NewItemUrl,
    <<"items", "4711-jacke">>,
    <<"items", "drafts">>,
    <<"catalog", "1904-damen">>,
    <<"catalog", "items", "77">>,
    <<"member", "4711">> }

\* the leading decimal digits of a path segment ("" when it starts with none)
DigitPrefix(seg) ==
  CASE seg = "4711-jacke" -> "4711"
    [] seg = "4711" -> "4711"
    [] seg = "1904-damen" -> "1904"
    [] seg = "77" -> "77"
    [] OTHER -> ""

\* finalUrl.match(/items\/(\d+)/): the first place where a segment ending in
\* 'items' is followed by a segment starting with digits; the digits, or ""
ItemsId(u) ==
  LET k == First({ i \in 1..(Len(u) - 1) :
                   u[i] = "items" /\ DigitPrefix(u[i + 1]) # "" })
  IN IF k = 0 THEN "" ELSE DigitPrefix(u[k + 1])

\* finalUrl.includes('/catalog')
IncludesCatalog(u) == \E i \in 1..Len(u) : u[i] \in {"catalog", "catalog-rules"}

\* 'catalog-' + Date.now()
CatalogId == "catalog-<now>"

NoOutcome == [success |-> FALSE, error |-> "pending", url |-> NoUrl, id |-> "none"]
Fail(err) == [success |-> FALSE, error |-> err, url |-> NoUrl, id |-> "none"]
Ok(u, id) == [success |-> TRUE, error |-> "none", url |-> u, id |-> id]

PageOpen(a) == page[a] # "none" /\ page[a] \in openContexts

Goto(a, where) == pc' = [pc EXCEPT ![a] = where]
Did(a, what) == trace' = [trace EXCEPT ![a] = Append(@, what)]

\* closeBrowser up to its first await: if (this.context) await this.context.close()
\* else if (this.browser) await this.browser.close()
EnterCloseBrowser(a) ==
  IF context # "none"
    THEN closing' = [closing EXCEPT ![a] = context] /\ Goto(a, "closeContextWait")
    ELSE IF browser # "none"
      THEN closing' = [closing EXCEPT ![a] = browser] /\ Goto(a, "closeBrowserWait")
      ELSE Goto(a, "done") /\ UNCHANGED closing

\* an exception that is not turned into a returned failure
Throw_Escapes(a, err) ==
  /\ UNCHANGED out
  /\ EnterCloseBrowser(a)

\* an exception reaches the catch block of publishArticle, which calls closeBrowser
\* and then returns the failure
Throw(a, err) ==
  /\ out' = [out EXCEPT ![a] = Fail(err)]
  /\ EnterCloseBrowser(a)

\* no exception: the attempt moves on
Proceed(a, next) == Goto(a, next) /\ UNCHANGED <<out, closing>>

\* createPage: if (!this.browser || !this.context) await this.launchBrowser();
\* otherwise this.context.newPage() is called at once
CreatePage(a) ==
  /\ pc[a] = "create"
  /\ IF browser = "none" \/ context = "none"
       THEN Goto(a, "launch") /\ UNCHANGED page
       ELSE Goto(a, "newPage") /\ page' = [page EXCEPT ![a] = context]
  /\ UNCHANGED <<article, fieldFaults, scan, finalUrl, out, trace, upload, closing,
                 browser, context, openBrowsers, openContexts, ctxCookies>>
  /\ UNCHANGED <<catVars, upVars, resVars, navVars, appVars>>

\* launchBrowser: this.browser = await chromium.launch(...), then newContext() is
\* called on it
LaunchBrowser(a) ==
  /\ pc[a] = "launch"
  /\ \E ok \in BOOLEAN :
       IF ok
         THEN /\ browser' = a
              /\ openBrowsers' = openBrowsers \cup {a}
              /\ Did(a, "launch")
              /\ Proceed(a, "newContext")
         ELSE /\ Throw(a, "CreatePage")
              /\ UNCHANGED <<browser, openBrowsers, trace>>
  /\ UNCHANGED <<article, fieldFaults, scan, finalUrl, page, upload, context, openContexts, ctxCookies>>
  /\ UNCHANGED <<catVars, upVars, resVars, navVars, appVars>>

\* launchBrowser: this.context = await this.browser.newContext(...), then
\* addInitScript is called on it
NewContext(a) ==
  /\ pc[a] = "newContext"
  /\ IF a \in openBrowsers
       THEN /\ context' = a
            /\ openContexts' = openContexts \cup {a}
            /\ Proceed(a, "initScript")
       ELSE /\ Throw(a, "CreatePage")
            /\ UNCHANGED <<context, openContexts>>
  /\ UNCHANGED <<article, fieldFaults, scan, finalUrl, page, trace, upload, browser, openBrowsers, ctxCookies>>
  /\ UNCHANGED <<catVars, upVars, resVars, navVars, appVars>>

\* addInitScript on the new context resolves, launchBrowser returns and createPage
\* calls this.context.newPage() on whatever this.context is by then
AddInitScript(a) ==
  /\ pc[a] = "initScript"
  /\ IF a \in openContexts /\ context # "none"
       THEN page' = [page EXCEPT ![a] = context] /\ Proceed(a, "newPage")
       ELSE Throw(a, "CreatePage") /\ UNCHANGED page
  /\ UNCHANGED <<article, fieldFaults, scan, finalUrl, trace, upload,
                 browser, context, openBrowsers, openContexts, ctxCookies>>
  /\ UNCHANGED <<catVars, upVars, resVars, navVars, appVars>>

\* createPage: const page = await this.context.newPage() resolves or rejects
NewPage(a) ==
  /\ pc[a] = "newPage"
  /\ IF page[a] \in openContexts
       THEN Did(a, "newPage") /\ Proceed(a, "home") /\ UNCHANGED page
       ELSE Throw(a, "CreatePage") /\ page' = [page EXCEPT ![a] = "none"]
                                   /\ UNCHANGED trace
  /\ UNCHANGED <<article, fieldFaults, scan, finalUrl, upload,
                 browser, context, openBrowsers, openContexts, ctxCookies>>
  /\ UNCHANGED <<catVars, upVars, resVars, navVars, appVars>>

\* a page operation that throws when it fails: goto(baseUrl), reload, goto(/items/new)
PageStep(a, at, what, next) ==
  /\ pc[a] = at
  /\ \E ok \in BOOLEAN :
       IF PageOpen(a) /\ ok
         THEN Did(a, what) /\ Proceed(a, next)
         ELSE Throw(a, "Navigation") /\ UNCHANGED trace
  /\ UNCHANGED <<article, fieldFaults, scan, finalUrl, page, upload,
                 browser, context, openBrowsers, openContexts, ctxCookies>>
  /\ UNCHANGED <<catVars, upVars, resVars, navVars, appVars>>

GotoHome(a) == PageStep(a, "home", "goto:/", "cookies")

\* setCookies: cookies that are no array are refused; otherwise
\* await this.context.addCookies(...); a failure is caught and the false it returns
\* is not looked at
SetCookies(a) ==
  /\ pc[a] = "cookies"
  /\ \E isArray \in BOOLEAN :
       IF isArray /\ context # "none" /\ context \in openContexts
         THEN /\ ctxCookies' = [ctxCookies EXCEPT ![context] = @ \cup {a}]
              /\ Did(a, "cookies")
         ELSE UNCHANGED <<ctxCookies, trace>>
  /\ Proceed(a, "reload")
  /\ UNCHANGED <<article, fieldFaults, scan, finalUrl, page, upload,
                 browser, context, openBrowsers, openContexts>>
  /\ UNCHANGED <<catVars, upVars, resVars, navVars, appVars>>

Reload(a) == PageStep(a, "reload", "reload", "login")

\* checkIfLoggedIn: the user menu can only show on a page whose context holds cookies
CheckIfLoggedIn(a) ==
  /\ pc[a] = "login"
  /\ \E menu \in BOOLEAN :
       IF PageOpen(a) /\ ctxCookies[page[a]] # {} /\ menu
         THEN Proceed(a, "gotoNew")
         ELSE Throw(a, "NotLoggedIn")
  /\ UNCHANGED <<article, fieldFaults, scan, finalUrl, page, trace, upload,
                 browser, context, openBrowsers, openContexts, ctxCookies>>
  /\ UNCHANGED <<catVars, upVars, resVars, navVars, appVars>>

GotoNew(a) == PageStep(a, "gotoNew", "goto:/items/new", "validate")

\* VALIDATION: title and description of at least 5 characters
Validate(a) ==
  /\ pc[a] = "validate"
  /\ IF article[a].titleLen < MinTextLen
       THEN Throw(a, "TitleTooShort")
       ELSE IF article[a].descLen < MinTextLen
         THEN Throw(a, "DescriptionTooShort")
         ELSE Proceed(a, "title")
  /\ UNCHANGED <<article, fieldFaults, scan, finalUrl, page, trace, upload,
                 browser, context, openBrowsers, openContexts, ctxCookies>>
  /\ UNCHANGED <<catVars, upVars, resVars, navVars, appVars>>

\* humanType / selectOption on a form field the listing has a value for; ok: the
\* field was found and filled. A failure is caught inside (humanType returns
\* false) and the result is not looked at
FieldStep(a, at, present, what, next) ==
  /\ pc[a] = at
  /\ \E ok \in BOOLEAN :
       /\ ~ok => (present /\ PageOpen(a) /\ fieldFaults > 0)
       /\ fieldFaults' = IF ok THEN fieldFaults ELSE fieldFaults - 1
       /\ IF present /\ PageOpen(a) /\ ok THEN Did(a, what) ELSE UNCHANGED trace
  /\ Proceed(a, next)
  /\ UNCHANGED <<article, scan, finalUrl, page, upload,
                 browser, context, openBrowsers, openContexts, ctxCookies>>
  /\ UNCHANGED <<catVars, upVars, resVars, navVars, appVars>>

TypeTitle(a) == FieldStep(a, "title", TRUE, "title", "description")
TypeDescription(a) == FieldStep(a, "description", TRUE, "description", "price")
TypePrice(a) == FieldStep(a, "price", article[a].extras, "price", "category")

\* categorySelector.selectCategory(page, vintedCategory); a failure is thrown
PlaceCategory(a) ==
  /\ pc[a] = "category"
  /\ IF article[a].hasCategory
       THEN \E ok \in BOOLEAN :
              IF PageOpen(a) /\ ok
                THEN Did(a, "category") /\ Proceed(a, "brand")
                ELSE Throw(a, "Category") /\ UNCHANGED trace
       ELSE Proceed(a, "brand") /\ UNCHANGED trace
  /\ UNCHANGED <<article, fieldFaults, scan, finalUrl, page, upload,
                 browser, context, openBrowsers, openContexts, ctxCookies>>
  /\ UNCHANGED <<catVars, upVars, resVars, navVars, appVars>>

TypeBrand(a) == FieldStep(a, "brand", article[a].extras, "brand", "size")
SetSize(a) == FieldStep(a, "size", article[a].extras, "size", "condition")
SetCondition(a) == FieldStep(a, "condition", article[a].extras, "condition", "color")
\* a color step after which the submit loop starts at once
SetColor_ThenSubmit(a) == FieldStep(a, "color", article[a].extras, "color", "submit")

SetColor(a) == FieldStep(a, "color", article[a].extras, "color", "photos")

\* what publishArticle does once uploadPhotos has returned r ("ok": success true,
\* "failed": success false): both branches only log
AfterPhotos(a, r) == Proceed(a, "submit")

\* PHOTO UPLOAD: uploadPhotos is called when there are image URLs; r is how it ended
PhotoUpload(a) ==
  /\ pc[a] = "photos"
  /\ IF article[a].nImages > 0
       THEN \E r \in {"ok", "failed"} :
              /\ r = "ok" => PageOpen(a)
              /\ upload' = [upload EXCEPT ![a] = r]
              /\ Did(a, "photos")
              /\ AfterPhotos(a, r)
       ELSE Proceed(a, "submit") /\ UNCHANGED <<trace, upload>>
  /\ UNCHANGED <<article, fieldFaults, scan, finalUrl, page,
                 browser, context, openBrowsers, openContexts, ctxCookies>>
  /\ UNCHANGED <<catVars, upVars, resVars, navVars, appVars>>

\* the selectors the submit button loop tries, in order
NumSubmitSelectors == 6

\* what a selector of the loop meets: no element, an element that does not become
\* visible, a visible one carrying disabled, one whose click throws, one it clicks
ButtonStates == {"absent", "hidden", "disabled", "clickFails", "enabled"}

NoScan == [sel |-> 0, candidates |-> FALSE, foundButDisabled |-> FALSE,
           clicked |-> "none"]

\* a loop that clicks the first visible button, disabled or not
Submit_ClicksAny(a) ==
  /\ pc[a] = "submit"
  /\ scan[a].sel < NumSubmitSelectors
  /\ \E b \in ButtonStates :
       /\ ~PageOpen(a) => b = "absent"
       /\ IF b \in {"enabled", "disabled"}
            THEN /\ scan' = [scan EXCEPT ![a] = [NoScan EXCEPT !.clicked = b]]
                 /\ Did(a, "submit")
                 /\ Proceed(a, "verify")
            ELSE /\ scan' = [scan EXCEPT
                               ![a].sel = @ + 1,
                               ![a].candidates = @ \/ b # "absent"]
                 /\ UNCHANGED <<pc, out, closing, trace>>
  /\ UNCHANGED <<article, fieldFaults, finalUrl, page, upload,
                 browser, context, openBrowsers, openContexts, ctxCookies>>
  /\ UNCHANGED <<catVars, upVars, resVars, navVars, appVars>>

\* one pass of the submit button loop: buttons.length === 0 -> continue; waitFor
\* visible; getAttribute('disabled') !== null -> foundButDisabled.push, continue;
\* otherwise click and break; an exception -> continue. After a click only the
\* kind of the clicked button is kept of what the loop met.
Submit(a) ==
  /\ pc[a] = "submit"
  /\ scan[a].sel < NumSubmitSelectors
  /\ \E b \in ButtonStates :
       /\ ~PageOpen(a) => b = "absent"
       /\ IF b = "enabled"
            THEN /\ scan' = [scan EXCEPT ![a] = [NoScan EXCEPT !.clicked = b]]
                 /\ Did(a, "submit")
                 /\ Proceed(a, "verify")
            ELSE /\ scan' = [scan EXCEPT
                               ![a].sel = @ + 1,
                               ![a].candidates = @ \/ b # "absent",
                               ![a].foundButDisabled = @ \/ b = "disabled"]
                 /\ UNCHANGED <<pc, out, closing, trace>>
  /\ UNCHANGED <<article, fieldFaults, finalUrl, page, upload,
                 browser, context, openBrowsers, openContexts, ctxCookies>>
  /\ UNCHANGED <<catVars, upVars, resVars, navVars, appVars>>

\* after the loop: if (!submitSuccess) throw, with the 'disabled' message when
\* foundButDisabled.length > 0 and the 'could not find' message otherwise
SubmitFailed(a) ==
  /\ pc[a] = "submit"
  /\ scan[a].sel = NumSubmitSelectors
  /\ Throw(a, IF scan[a].foundButDisabled THEN "SubmitDisabled" ELSE "NoSubmitButton")
  /\ UNCHANGED <<article, fieldFaults, scan, finalUrl, page, trace, upload,
                 browser, context, openBrowsers, openContexts, ctxCookies>>
  /\ UNCHANGED <<catVars, upVars, resVars, navVars, appVars>>

\* a verification that takes any page other than the upload form for a success
Verify_AnyNavigation(a) ==
  /\ pc[a] = "verify"
  /\ \E u \in FinalUrls :
       /\ finalUrl' = [finalUrl EXCEPT ![a] = u]
       /\ IF u # NewItemUrl
            THEN out' = [out EXCEPT ![a] = Ok(u, CatalogId)] /\ EnterCloseBrowser(a)
            ELSE Throw(a, "NotVerified")
  /\ UNCHANGED <<article, fieldFaults, scan, page, trace, upload,
                 browser, context, openBrowsers, openContexts, ctxCookies>>
  /\ UNCHANGED <<catVars, upVars, resVars, navVars, appVars>>

\* VERIFICATION: waitForURL (its timeout is only logged), finalUrl = page.url();
\* an items/<digits> match or '/catalog' is success, closeBrowser is called and the
\* success is returned; anything else throws
Verify(a) ==
  /\ pc[a] = "verify"
  /\ \E u \in FinalUrls :
       /\ finalUrl' = [finalUrl EXCEPT ![a] = u]
       /\ IF ItemsId(u) # ""
            THEN out' = [out EXCEPT ![a] = Ok(u, ItemsId(u))] /\ EnterCloseBrowser(a)
            ELSE IF IncludesCatalog(u)
              THEN out' = [out EXCEPT ![a] = Ok(u, CatalogId)] /\ EnterCloseBrowser(a)
              ELSE Throw(a, "NotVerified")
  /\ UNCHANGED <<article, fieldFaults, scan, page, trace, upload,
                 browser, context, openBrowsers, openContexts, ctxCookies>>
  /\ UNCHANGED <<catVars, upVars, resVars, navVars, appVars>>

\* closeBrowser: context.close() resolves: this.context = null, and
\* if (this.browser) await this.browser.close(); a rejection is caught and
\* closeBrowser returns
CloseContextDone(a) ==
  /\ pc[a] = "closeContextWait"
  /\ \E ok \in BOOLEAN :
       IF ok
         THEN /\ openContexts' = openContexts \ {closing[a]}
              /\ context' = "none"
              /\ IF browser # "none"
                   THEN closing' = [closing EXCEPT ![a] = browser]
                        /\ Goto(a, "closeBrowserWait")
                   ELSE Goto(a, "done") /\ UNCHANGED closing
         ELSE Goto(a, "done") /\ UNCHANGED <<openContexts, context, closing>>
  /\ UNCHANGED <<article, fieldFaults, scan, finalUrl, page, out, trace, upload,
                 browser, openBrowsers, ctxCookies>>
  /\ UNCHANGED <<catVars, upVars, resVars, navVars, appVars>>

\* closeBrowser: browser.close() resolves: this.browser = null; closing a browser
\* closes the context created in it
CloseBrowserDone(a) ==
  /\ pc[a] = "closeBrowserWait"
  /\ \E ok \in BOOLEAN :
       IF ok
         THEN /\ openBrowsers' = openBrowsers \ {closing[a]}
              /\ openContexts' = openContexts \ {closing[a]}
              /\ browser' = "none"
         ELSE UNCHANGED <<openBrowsers, openContexts, browser>>
  /\ Goto(a, "done")
  /\ UNCHANGED <<article, fieldFaults, scan, finalUrl, page, out, trace, upload, closing, context, ctxCookies>>
  /\ UNCHANGED <<catVars, upVars, resVars, navVars, appVars>>

Init ==
  /\ InitCatVars
  /\ InitUpVars
  /\ InitResVars
  /\ InitNavVars
  /\ InitAppVars
  /\ pc = [a \in Attempts |-> "create"]
  /\ article \in [Attempts -> Articles]
  /\ page = [a \in Attempts |-> "none"]
  /\ out = [a \in Attempts |-> NoOutcome]
  /\ trace = [a \in Attempts |-> << >>]
  /\ upload = [a \in Attempts |-> "none"]
  /\ closing = [a \in Attempts |-> "none"]
  /\ browser = "none"
  /\ context = "none"
  /\ openBrowsers = {}
  /\ openContexts = {}
  /\ ctxCookies = [c \in Attempts |-> {}]
  /\ scan = [a \in Attempts |-> NoScan]
  /\ finalUrl = [a \in Attempts |-> NoUrl]
  /\ fieldFaults = 0

Next ==
  \/ \E a \in Attempts : CreatePage(a)
  \/ \E a \in Attempts : LaunchBrowser(a)
  \/ \E a \in Attempts : NewContext(a)
  \/ \E a \in Attempts : AddInitScript(a)
  \/ \E a \in Attempts : NewPage(a)
  \/ \E a \in Attempts : GotoHome(a)
  \/ \E a \in Attempts : SetCookies(a)
  \/ \E a \in Attempts : Reload(a)
  \/ \E a \in Attempts : CheckIfLoggedIn(a)
  \/ \E a \in Attempts : GotoNew(a)
  \/ \E a \in Attempts : Validate(a)
  \/ \E a \in Attempts : TypeTitle(a)
  \/ \E a \in Attempts : TypeDescription(a)
  \/ \E a \in Attempts : TypePrice(a)
  \/ \E a \in Attempts : PlaceCategory(a)
  \/ \E a \in Attempts : TypeBrand(a)
  \/ \E a \in Attempts : SetSize(a)
  \/ \E a \in Attempts : SetCondition(a)
  \/ \E a \in Attempts : SetColor(a)
  \/ \E a \in Attempts : PhotoUpload(a)
  \/ \E a \in Attempts : Submit(a)
  \/ \E a \in Attempts : SubmitFailed(a)
  \/ \E a \in Attempts : Verify(a)
  \/ \E a \in Attempts : CloseContextDone(a)
  \/ \E a \in Attempts : CloseBrowserDone(a)

\* two publishArticle calls running concurrently on a form that offers its fields
Spec == Init /\ [][Next]_vars

\* one publishArticle call on a form of which up to MaxFaults fields cannot be
\* filled
InitSolo ==
  /\ InitCatVars
  /\ InitUpVars
  /\ InitResVars
  /\ InitNavVars
  /\ InitAppVars
  /\ pc = [a \in Attempts |-> IF a = "a1" THEN "create" ELSE "idle"]
  /\ article \in [Attempts -> Articles]
  /\ article["a2"] = article["a1"]
  /\ page = [a \in Attempts |-> "none"]
  /\ out = [a \in Attempts |-> NoOutcome]
  /\ trace = [a \in Attempts |-> << >>]
  /\ upload = [a \in Attempts |-> "none"]
  /\ closing = [a \in Attempts |-> "none"]
  /\ browser = "none"
  /\ context = "none"
  /\ openBrowsers = {}
  /\ openContexts = {}
  /\ ctxCookies = [c \in Attempts |-> {}]
  /\ scan = [a \in Attempts |-> NoScan]
  /\ finalUrl = [a \in Attempts |-> NoUrl]
  /\ fieldFaults = MaxFaults

SpecSolo == InitSolo /\ [][Next]_vars

\* ---------------------------------------------------------------------
\* Properties of publishArticle (Spec)
\* ---------------------------------------------------------------------
TooShort(a) == article[a].titleLen < MinTextLen \/ article[a].descLen < MinTextLen

Submitted(a) == \E i \in 1..Len(trace[a]) : trace[a][i] = "submit"

\* between createPage returning and the end of the form work the attempt operates
\* on its page
Operating(a) ==
  pc[a] \in {"home", "cookies", "reload", "login", "gotoNew", "validate", "title",
             "description", "price", "category", "brand", "size", "condition",
             "color", "photos", "submit", "verify"}

\* C5: a listing whose title or description is shorter than 5 characters is
\* rejected without any page interaction: no browser launch, no page, no
\* navigation, no cookies.
C5_RejectsBeforeInteraction ==
  \A a \in Attempts : TooShort(a) => trace[a] = << >>

\* C8: when the listing has images and uploadPhotos uploads none, publishArticle
\* fails hard: submit is not clicked and the outcome is a failure.
C8_UploadFailureIsHard ==
  \A a \in Attempts :
    upload[a] = "failed" =>
      /\ ~Submitted(a)
      /\ pc[a] = "done" => ~out[a].success

\* C9: concurrent attempts do not interfere: while an attempt operates on its page
\* the context of that page is open (no other attempt's closeBrowser closed it),
\* and that context holds no cookies applied by another attempt.
C9_NoInterference ==
  \A a \in Attempts :
    Operating(a) =>
      /\ page[a] \in openContexts
      /\ ctxCookies[page[a]] \subseteq {a}

\* C10: when publishArticle has returned, the browser and the context the attempt
\* acquired are closed.
C10_ReleasedOnReturn ==
  \A a \in Attempts :
    pc[a] = "done" => a \notin openBrowsers /\ a \notin openContexts

\* the messages of the errors thrown inside publishArticle
ErrorMessages ==
  {"CreatePage", "Navigation", "NotLoggedIn", "TitleTooShort", "DescriptionTooShort",
   "Category", "SubmitDisabled", "NoSubmitButton", "NotVerified"}

\* C11: publishArticle never throws: a call that has returned has resolved to an
\* outcome; a failure is success false with the message of the error, a success
\* carries the final URL and an identifier.
C11_AlwaysResolves ==
  \A a \in Attempts :
    pc[a] = "done" =>
      /\ out[a] # NoOutcome
      /\ ~out[a].success => out[a].error \in ErrorMessages
      /\ out[a].success =>
           out[a].error = "none" /\ out[a].url # NoUrl /\ out[a].id # "none"

\* one call has returned a failure thrown in the middle of the form, the other a
\* success
C11_Witness ==
  /\ pc["a1"] = "done" /\ out["a1"] = Fail("Category")
  /\ pc["a2"] = "done" /\ out["a2"].success

\* C19: success is reported only for a final URL that matches items/<digits>, with
\* exactly those digits as the identifier, or that contains /catalog, with the
\* synthesized catalog placeholder as the identifier; with any other final URL,
\* the unchanged upload form included, the call fails.
C19_VerifiedByUrl ==
  \A a \in Attempts :
    /\ out[a].success =>
         /\ out[a].url = finalUrl[a]
         /\ <<out[a].url, out[a].id>> \in
              { << <<"items", "4711-jacke">>, "4711" >>,
                << <<"catalog", "items", "77">>, "77" >>,
                << <<"catalog", "1904-damen">>, CatalogId >> }
    /\ (pc[a] = "done" /\ finalUrl[a] \in
           {NewItemUrl, <<"items", "drafts">>, <<"member", "4711">>}) =>
         out[a] = Fail("NotVerified")

\* one call has returned the catalog placeholder, the other has failed on the
\* unchanged upload form
C19_Witness ==
  /\ pc["a1"] = "done" /\ out["a1"] = Ok(<<"catalog", "1904-damen">>, CatalogId)
  /\ pc["a2"] = "done" /\ finalUrl["a2"] = NewItemUrl /\ ~out["a2"].success

\* the interaction was performed by the attempt
Has(a, what) == \E i \in 1..Len(trace[a]) : trace[a][i] = what

\* the form interactions in the order of the code of publishArticle
FormOrder ==
  <<"title", "description", "price", "category", "brand", "size", "condition",
    "color", "photos", "submit">>

\* position of a form interaction in FormOrder, 0 for what happens before the form
Rank(what) == First({ k \in DOMAIN FormOrder : FormOrder[k] = what })

\* C12: when humanType cannot resolve the title or the description input and
\* returns false, publishArticle aborts at once with a failure: it is closing or has
\* returned, and no category placement, photo upload or submit click follows.
C12_TypingFailureAborts ==
  \A a \in Attempts :
    \A f \in {"title", "description"} :
      LET returned == /\ Has(a, "goto:/items/new") /\ ~TooShort(a)
                      /\ pc[a] # "validate"
                      /\ Rank(pc[a]) = 0 \/ Rank(pc[a]) > Rank(f)
      IN (returned /\ ~Has(a, f)) =>
           /\ Rank(pc[a]) = 0
           /\ ~Has(a, "category") /\ ~Has(a, "photos") /\ ~Has(a, "submit")
           /\ pc[a] = "done" => ~out[a].success

NothingClicked(a) == scan[a].sel = NumSubmitSelectors /\ pc[a] # "submit"

\* C18 as stated: a disabled submit button is never clicked; when nothing was
\* clicked and a visible disabled candidate was met the failure says the button is
\* disabled; the failure says the button could not be found only when no candidate
\* was met at all.
C18_NotFoundOnlyWithoutCandidate ==
  \A a \in Attempts :
    /\ scan[a].clicked # "disabled"
    /\ (NothingClicked(a) /\ scan[a].foundButDisabled) =>
         out[a] = Fail("SubmitDisabled")
    /\ out[a].error = "NoSubmitButton" => ~scan[a].candidates

\* C18, amended: a disabled submit button is never clicked, and a clicked one was
\* visible and enabled; when nothing was clicked the failure says the button is
\* disabled exactly when a visible disabled candidate was met, and says it could not
\* be found in every other case, also when candidates were met that stayed hidden
\* or whose click threw.
C18_DisabledReported ==
  \A a \in Attempts :
    /\ scan[a].clicked # "disabled"
    /\ Has(a, "submit") <=> scan[a].clicked = "enabled"
    /\ NothingClicked(a) =>
         /\ ~Has(a, "submit")
         /\ out[a] = Fail(IF scan[a].foundButDisabled THEN "SubmitDisabled"
                                                      ELSE "NoSubmitButton")
    /\ out[a].error \in {"SubmitDisabled", "NoSubmitButton"} => NothingClicked(a)

\* a call that met a disabled candidate, clicked nothing and has returned the
\* disabled message
C18_Witness ==
  /\ pc["a1"] = "done" /\ NothingClicked("a1") /\ scan["a1"].foundButDisabled
  /\ out["a1"] = Fail("SubmitDisabled")

\* C17: a run that opens /items/new has applied its session cookies before, and
\* has reloaded the page between the two; the form is touched only after
\* /items/new was opened, and a run whose login check failed has neither opened
\* /items/new nor touched the form.
C17_CookiesBeforeForm ==
  \A a \in Attempts :
    LET t == trace[a]
        touched == \E i \in 1..Len(t) : Rank(t[i]) > 0
    IN /\ Has(a, "goto:/items/new") =>
            \E i, j, k \in 1..Len(t) :
              /\ i < j /\ j < k
              /\ t[i] = "cookies" /\ t[j] = "reload" /\ t[k] = "goto:/items/new"
       /\ touched => Has(a, "goto:/items/new")
       /\ out[a].error = "NotLoggedIn" => ~touched /\ ~Has(a, "goto:/items/new")

\* C20: selectCategory selects the levels of the path strictly in order, level
\* i + 1 only after level i; when the selection fails at path index i it returns
\* success false with level = i + 1 and an error naming segment i, and no level
\* after i is attempted.
C20_LevelsInOrder ==
  svc = "cat" =>
    /\ \A k \in 1..Len(clickLog) : clickLog[k].level = k - 1
    /\ Len(clickLog) \in {level, level + 1}
    /\ (cpc = "done" /\ cres.error = "NotFound") =>
         /\ ~cres.success
         /\ cres.level = level + 1
         /\ cres.segment = PathParts[level + 1]
         /\ \A k \in 1..Len(clickLog) : clickLog[k].level <= level

\* the first level was selected and the second one was not found
C20_Witness ==
  /\ svc = "cat" /\ cpc = "done" /\ depth = 2
  /\ cres = [success |-> FALSE, error |-> "NotFound", level |-> 2,
             segment |-> "Kleidung"]
  /\ Len(clickLog) = 1 /\ clickLog[1].level = 0

\* ---------------------------------------------------------------------
\* findBestCategory on every text, hint and catalogue of the bounded sets
\* ---------------------------------------------------------------------
InitResolve ==
  /\ InitCatVars
  /\ InitUpVars
  /\ InitPubVars
  /\ InitNavVars
  /\ InitAppVars
  /\ rpc = "start"
  /\ aiCategory \in {"", "jeans", "Jeans", "blue jeans", "pants trousers",
                      "T-Shirt", "umbrella", "Hosen", "coat", "skirt",
                      "jeans coat"}
  /\ aiGender \in {"", "women", "Men", "kids", "male", "unisex"}
  /\ categories \in {CatalogueA, CatalogueB}
  /\ candidates = << >>
  /\ scored = << >>
  /\ best = NoNode
  /\ firstCall = [cats |-> categories, best |-> NoNode]

NextResolve ==
  \/ ResolveFilter
  \/ ResolveScore
  \/ ResolveSort
  \/ ResolveAgain

SpecResolve == InitResolve /\ [][NextResolve]_vars

\* the array scored is a ranking: it holds every candidate with its score,
\* highest score first, and the returned node is its head
Ranked ==
  /\ scored # << >>
  /\ Len(scored) = Len(candidates)
  /\ \A i \in DOMAIN candidates : \E j \in DOMAIN scored :
       scored[j] = [cat |-> candidates[i],
                    score |-> Score(candidates[i], ToLower(aiCategory))]
  /\ \A i, j \in DOMAIN scored : i < j => scored[i].score >= scored[j].score
  /\ best = scored[1].cat
  /\ \A i \in DOMAIN candidates : scored[1].score >= Score(candidates[i], ToLower(aiCategory))

\* C13 as stated: for every category text and gender hint the resolver has built
\* a non-empty ranking sorted by non-increasing score when it returns, and the
\* node it returns is the head of the ranking, of maximal score among the
\* candidates that survived the filter.
C13_AlwaysRanked == rpc = "done" => Ranked

\* C13, amended: whenever a candidate survived the filter the resolver has built
\* such a ranking and returns its head; when none survived (or no text was given)
\* no ranking is built and the returned node is a node of the catalogue chosen
\* without scores.
C13_RankedWhenMatched ==
  rpc = "done" =>
    IF candidates # << >>
      THEN Ranked
      ELSE scored = << >> /\ \E i \in DOMAIN categories : best = categories[i]

\* a returned ranking of several candidates whose head was not the first candidate
C13_Witness ==
  /\ rpc = "done" /\ Len(scored) >= 2
  /\ scored[1].score > scored[2].score
  /\ best # candidates[1]

\* C14: for a text that includes no keyword of the table the resolver returns the
\* fallback node of the gender branch resolved from the hint, of the default
\* branch when no hint is given.
C14_FallbackInGenderBranch ==
  (/\ rpc = "done" /\ aiCategory # ""
   /\ \A i \in DOMAIN CategoryKeywords :
        ~Includes(ToLower(aiCategory), CategoryKeywords[i][1])
   /\ TargetGender(aiGender) # "undefined") =>
    ToLower(best.hauptkategorie) = TargetGender(aiGender)

\* C15: a candidate scores 100 or more only if one of its parts, lowercased,
\* equals the lowercased text; the other signals together stay below 100.
C15_HundredNeedsExact ==
  \A i \in DOMAIN scored :
    scored[i].score >= 100 =>
      \E p \in DOMAIN scored[i].cat.parts :
        ToLower(scored[i].cat.parts[p]) = ToLower(aiCategory)

\* a returned ranking whose head has an exact match and scores above 100, and
\* which holds a candidate without one below 100
C15_Witness ==
  /\ rpc = "done"
  /\ Len(scored) >= 2
  /\ scored[1].score >= 100
  /\ scored[Len(scored)].score \in 1..99

\* position in the keyword table of the first keyword the text includes, or 0
FirstKeyword ==
  First({ i \in DOMAIN CategoryKeywords :
          Includes(ToLower(aiCategory), CategoryKeywords[i][1]) })

\* C26: the score of a candidate is 100 for last part = text, plus 50 for some
\* part = text, plus 30 for last part = resolved term, plus 10 for depth 3 or 4,
\* minus 5 for depth above 4, each signal counted once: the keyword bonus is 30
\* also when several keywords of the table occur in the text.
C26_EachSignalOnce ==
  \A i \in DOMAIN scored :
    LET cat == scored[i].cat
        text == ToLower(aiCategory)
        lastPart == ToLower(cat.parts[Len(cat.parts)])
    IN scored[i].score =
         (IF lastPart = text THEN 100 ELSE 0)
         + (IF \E p \in DOMAIN cat.parts : ToLower(cat.parts[p]) = text THEN 50 ELSE 0)
         + (IF FirstKeyword # 0 /\ lastPart = CategoryKeywords[FirstKeyword][2]
              THEN 30 ELSE 0)
         + (IF cat.depth \in {3, 4} THEN 10 ELSE 0)
         - (IF cat.depth > 4 THEN 5 ELSE 0)

\* C27: every node that is a candidate or is scored lies in the branch of the
\* resolved gender and has a lowercased full path that includes the term of the
\* first keyword, in table order, that the lowercased text includes; a text
\* without a keyword yields no candidate.
C27_FirstKeywordAdmits ==
  /\ \A i \in DOMAIN scored : \E j \in DOMAIN candidates : scored[i].cat = candidates[j]
  /\ \A j \in DOMAIN candidates :
       /\ ToLower(candidates[j].hauptkategorie) = TargetGender(aiGender)
       /\ FirstKeyword # 0
       /\ Includes(ToLower(candidates[j].full_path), CategoryKeywords[FirstKeyword][2])

\* the text names a later keyword whose term is in the catalogue under the
\* resolved gender, and only the nodes of the first keyword were scored
C27_Witness ==
  /\ rpc = "done" /\ aiCategory = "jeans coat" /\ aiGender = "women"
  /\ categories = CatalogueA
  /\ Len(scored) = 1
  /\ best = Node(<<"Damen", "Kleidung", "Jacken & Mäntel", "Mäntel">>)

\* C28: when several candidates share the maximal score the returned node is the
\* one that comes first in the catalogue; scored candidates of equal score keep
\* their catalogue order.
C28_TiesKeepCatalogueOrder ==
  (rpc = "done" /\ candidates # << >>) =>
    LET Pos(cat) == First({ i \in DOMAIN categories : categories[i] = cat })
    IN /\ \A i, j \in DOMAIN scored :
            (i < j /\ scored[i].score = scored[j].score) =>
              Pos(scored[i].cat) < Pos(scored[j].cat)
       /\ \A i \in DOMAIN scored :
            scored[i].score = scored[1].score => Pos(best) <= Pos(scored[i].cat)

\* two candidates share the maximal score and the earlier one was returned
C28_Witness ==
  /\ rpc = "done" /\ Len(scored) >= 2
  /\ scored[1].score = scored[2].score
  /\ best = Node(<<"Damen", "Kleidung", "Jeans">>)
  /\ scored[2].cat = Node(<<"Damen", "Umstandsmode", "Jeans">>)

C23_AlwaysPlaced ==
  \A a \in Attempts :
    (Has(a, "submit") \/ out[a].success) => Has(a, "category")


\* C24: uploadPhotos processes at most 20 image URLs: the loop index never passes
\* min(n, 20), no image of index 20 or more (counted from 0) is downloaded to a
\* scratch file or injected into the file input, and the reported uploadedCount
\* is at most min(n, 20).
C24_AtMostTwenty ==
  /\ idx <= Min(Len(imageUrls), 20)
  /\ \A i \in scratch : i < 20
  /\ \A j \in DOMAIN uploadedFiles : uploadedFiles[j] < 20
  /\ Len(uploadedFiles) <= Min(Len(imageUrls), 20)
  /\ upRes.success => upRes.uploadedCount <= Min(Len(imageUrls), 20)

\* 21 image URLs that would all succeed: the call has returned with 20 uploaded
C24_Witness ==
  /\ Len(imageUrls) = 21
  /\ \A i \in DOMAIN imageUrls : imageUrls[i] = "ok"
  /\ upc = "done"
  /\ upRes = UpSuccess(20)


\* C25: every call eventually returns even when an external party never
\* answers: an image server that never completes a download cannot make
\* uploadPhotos hang, the call started by publishArticle always returns.
C25_UploadReturns == <>(upc = "done")


\* ---------------------------------------------------------------------
\* navigateToCategory on category paths with 0 to MaxDepth sub-categories
\* ---------------------------------------------------------------------
InitNav ==
  /\ InitCatVars
  /\ InitUpVars
  /\ InitPubVars
  /\ InitResVars
  /\ InitAppVars
  /\ npc = "start"
  /\ subCategories \in { SubSeq(PathParts, 2, 1 + n) : n \in 0..MaxDepth }
  /\ navLevel = 0
  /\ attempt = 1
  /\ tries = << >>
  /\ navClicks = << >>
  /\ signal = "none"
  /\ brandFieldExists = "none"
  /\ navRes = "pending"

NextNav ==
  \/ NavStart
  \/ ClickWithRetry
  \/ NavVerify

SpecNav == InitNav /\ [][NextNav]_vars

\* C21: the missing brand-list response is not fatal by itself, but when it did
\* not arrive navigateToCategory returns true only if the brand input is present
\* in the DOM.
C21_VerifiedWithoutSignal ==
  (npc = "done" /\ signal = "timeout" /\ brandFieldExists = "no") => navRes # "true"

\* C22: navigateToCategory returns true only if the main category and every
\* sub-category were clicked; once clickWithRetry has failed for a level no further
\* level is tried and the call returns false.
C22_EveryLevelClicked ==
  /\ navRes = "true" =>
       /\ Len(navClicks) = 1 + Len(subCategories)
       /\ \A i \in DOMAIN navClicks : navClicks[i] # "none"
  /\ \A i \in DOMAIN navClicks :
       navClicks[i] = "none" => (i = Len(navClicks) /\ npc = "done" /\ navRes = "false")


\* C38: when no file-input selector matches, uploadPhotos returns the failure
\* 'Could not find file input element' without having created the scratch
\* directory, downloaded an image or created a scratch file.
C38_NothingBeforeFileInput ==
  (upc = "done" /\ upRes = UpFailure("NoFileInput")) =>
    /\ ~madeDir
    /\ idx = 0 /\ scratch = {} /\ uploadedFiles = << >> /\ failLog = 0

\* the call was given images and has returned for the lack of a file input
C38_Witness ==
  /\ upc = "done" /\ upRes = UpFailure("NoFileInput")
  /\ Len(imageUrls) >= 2 /\ imageUrls[1] = "ok"


C32_BoundedRetries ==
  LET n == Len(tries)
      clicked(i) == tries[i].r \in {"form", "xpath", "global"}
      running == npc = "click" /\ attempt > 1
  IN /\ n <= 3
     /\ running => attempt = n + 1
     /\ \A i \in 1..n :
          /\ clicked(i) => i = n /\ ~running
          /\ tries[i].wait = IF tries[i].r = "miss" /\ i < 3 THEN i * 500 ELSE 0
          /\ (i < 3 /\ ~clicked(i)) => (i < n \/ (running /\ attempt = i + 1))
     /\ (n > 0 /\ ~running) =>
          IF clicked(n) THEN navClicks # << >> /\ navClicks[Len(navClicks)] = tries[n].r
          ELSE /\ n = 3
               /\ IF tries[3].r = "error" \/ Len(navClicks) = 0
                    THEN npc = "done" /\ navRes = "false"
                    ELSE navClicks[Len(navClicks)] = "none"

\* the call for the first sub-category swallowed an error in its first attempt,
\* waited 1000 ms after the miss of its second and threw in its third
C32_Witness ==
  /\ Len(tries) = 3 /\ tries[1].r = "error" /\ tries[2].r = "miss" /\ tries[2].wait = 1000
  /\ tries[3].r = "error"
  /\ navLevel = 1 /\ npc = "done" /\ navRes = "false"


\* ---------------------------------------------------------------------
\* The condition block on listings with and without a condition
\* ---------------------------------------------------------------------
InitCondition ==
  /\ InitCatVars
  /\ InitUpVars
  /\ InitPubVars
  /\ InitResVars
  /\ InitNavVars
  /\ condPc = "start"
  /\ condition \in {"", "neu", "Neu", "NEW", "sehr gut", "Sehr Gut", "very good",
                    "gut", "Good", "zufriedenstellend", "Satisfactory",
                    "Neu mit Etikett", "wie neu", "fair", "gebraucht",
                    "constructor", "Constructor", "__proto__"}
  /\ condSelector = 1
  /\ vintedCondition = "none"
  /\ conditionSet = FALSE
  /\ lpc = "idle"
  /\ lbrowser = "none"
  /\ loginButton = 0
  /\ currentUrl = "none"
  /\ cookies = -1
  /\ failedStep = "none"
  /\ loginRes = [success |-> FALSE, error |-> "pending", cookies |-> -1]
  /\ now = 0
  /\ sessions = << >>
  /\ articleRec = [status |-> "draft", vinted_id |-> "none"]
  /\ activity = << >>
  /\ ctlPc = "idle"
  /\ ctlArticleId = 0
  /\ ctlSession = 0
  /\ ctlResult = "none"
  /\ response = 0

NextCondition ==
  \/ ConditionStart
  \/ ConditionSelect

SpecCondition == InitCondition /\ [][NextCondition]_vars

\* C33: the label handed to the form is the table translation of the condition,
\* looked up without regard to case; a condition that is not in the table is
\* handed over unchanged; the block is always left, whether the condition was
\* set or not.
C33_TableTranslation ==
  LET expected ==
        CASE condition \in {"neu", "Neu", "NEW"} -> "Neu mit Etikett"
          [] condition \in {"sehr gut", "Sehr Gut", "very good"} -> "Sehr gut"
          [] condition \in {"gut", "Good"} -> "Gut"
          [] condition \in {"zufriedenstellend", "Satisfactory"} -> "Zufriedenstellend"
          [] OTHER -> condition
  IN /\ vintedCondition # "none" => vintedCondition = expected
     /\ conditionSet => vintedCondition = expected
     /\ condPc \in {"start", "loop", "done"}


\* ---------------------------------------------------------------------
\* One login call
\* ---------------------------------------------------------------------
InitLogin ==
  /\ InitCatVars
  /\ InitUpVars
  /\ InitPubVars
  /\ InitResVars
  /\ InitNavVars
  /\ condPc = "idle"
  /\ condition = ""
  /\ condSelector = 1
  /\ vintedCondition = "none"
  /\ conditionSet = FALSE
  /\ lpc = "create"
  /\ lbrowser = "none"
  /\ loginButton = 0
  /\ currentUrl = "none"
  /\ cookies = -1
  /\ failedStep = "none"
  /\ loginRes = [success |-> FALSE, error |-> "pending", cookies |-> -1]
  /\ now = 0
  /\ sessions = << >>
  /\ articleRec = [status |-> "draft", vinted_id |-> "none"]
  /\ activity = << >>
  /\ ctlPc = "idle"
  /\ ctlArticleId = 0
  /\ ctlSession = 0
  /\ ctlResult = "none"
  /\ response = 0

NextLogin ==
  \/ LoginStep
  \/ LoginCheck
  \/ LoginReturn
  \/ LoginCatch

SpecLogin == InitLogin /\ [][NextLogin]_vars

\* C34: login returns success true, with the cookies, whenever no step failed,
\* the URL after the submit is not the login page and at least 3 cookies were
\* retrieved, and success false otherwise.
C34_SuccessWhenLoggedIn ==
  lpc = "done" =>
    (loginRes.success <=>
       (failedStep = "none" /\ currentUrl \notin {"none", "login"} /\ cookies >= 3))


\* C35: no launched browser is leaked: every browser that is open is the one the
\* service still refers to, so that a closeBrowser call can close it, and once
\* every call has returned no browser is open.
C35_NoLeakedBrowser ==
  /\ \A b \in openBrowsers : b = browser
  /\ (\A a \in Attempts : pc[a] = "done") => openBrowsers = {}


\* ---------------------------------------------------------------------
\* Publish requests on a store whose sessions are saved, used and invalidated
\* ---------------------------------------------------------------------
InitStore ==
  /\ InitCatVars
  /\ InitUpVars
  /\ InitPubVars
  /\ InitResVars
  /\ InitNavVars
  /\ InitAppVars

NextStore ==
  \/ SaveSession
  \/ InvalidateSession
  \/ CtlRequest
  \/ CtlFinish

SpecStore == InitStore /\ [][NextStore]_vars


\* C36: the controller calls publishArticle only for a request with an articleId
\* whose article was found and for which an active session was found; the article
\* row is set to 'published' and last_used of a session is refreshed only in the
\* step in which publishArticle has returned success; when it returned a failure
\* a 'failed' activity is logged, 500 is answered and the article row and the
\* sessions are left as they were.
C36_UpdatesOnlyAfterSuccess ==
  /\ [](ctlPc = "publishing" => (ctlArticleId = 1 /\ ctlSession \in DOMAIN sessions))
  /\ [][ /\ (\/ articleRec' # articleRec
             \/ \E i \in DOMAIN sessions : sessions'[i].last_used # sessions[i].last_used)
            => (ctlPc = "publishing" /\ ctlResult' = "ok"
                /\ articleRec'.status = "published")
         /\ (ctlPc = "publishing" /\ ctlResult' = "failed")
            => (/\ articleRec' = articleRec /\ sessions' = sessions
                /\ activity' = Append(activity, "failed") /\ response' = 500) ]_vars

\* a request that failed in the browser, then one that succeeded
C36_Witness ==
  /\ activity = <<"failed", "success">>
  /\ response = 200 /\ ctlResult = "ok"
  /\ articleRec.status = "published"

\* C37: the session getActiveSession hands to a request is valid, not expired at
\* the time of the query and has the most recent last_used of those; a session
\* that was invalidated stays invalid, so it is never handed out again.
C37_OnlyValidNewest ==
  [][ /\ (ctlPc # "publishing" /\ ctlPc' = "publishing") =>
           /\ sessions[ctlSession'].session_valid
           /\ sessions[ctlSession'].valid_until > now'
           /\ \A j \in DOMAIN sessions :
                (sessions[j].session_valid /\ sessions[j].valid_until > now')
                  => sessions[j].last_used <= sessions[ctlSession'].last_used
      /\ \A i \in DOMAIN sessions : ~sessions[i].session_valid => ~sessions'[i].session_valid
    ]_vars

\* a request was handed the older session because the one used last was
\* invalidated
C37_Witness ==
  /\ ctlPc = "publishing" /\ Len(sessions) = 2
  /\ \E i \in DOMAIN sessions :
       /\ i # ctlSession
       /\ ~sessions[i].session_valid /\ sessions[i].valid_until > now
       /\ sessions[i].last_used > sessions[ctlSession].last_used

====
